---- MODULE Spec2Model ----
(***************************************************************************)
(* Real-time collaboration relay and client-side state reconciler of the   *)
(* car configurator workspace (ProjectWorkspace.tsx, configurator.ts, the  *)
(* config route and the socket relay).                                     *)
(*                                                                         *)
(* Every client of one session is a browser tab running ProjectWorkspace;  *)
(* its React state and refs are the per-client variables below.  Events    *)
(* travel over two channels (BroadcastChannel "bc" and the socket relay    *)
(* "io"); each channel is FIFO per sender and receiver, the two channels   *)
(* are unordered with respect to each other.                               *)
(*                                                                         *)
(* JS objects are modelled as ordered sequences of <<key, value>> pairs    *)
(* (insertion order is observable through JSON.stringify / Object.keys).   *)
(* Presentation-only flags (synced, status) that no handler reads are not  *)
(* part of the state.                                                      *)
(***************************************************************************)
EXTENDS Integers, Sequences, FiniteSets, TLC

\* ------------------------------------------------------------------ bounds
MaxEdits == 2
MaxLoadEdits == 1
MaxTime == 1500
MaxHandled == 3
MaxDedupTime == 2000
MaxBurst == 34
MaxPresenceTime == 16000
MaxPresenceEvents == 2
MaxPeers == 21
MaxComments == 32
MaxEchoHandled == 2
MaxEchoTime == 2000
MaxSent == 2
MaxLeaveSent == 2
MaxLeaveEvents == 1
MaxLeaveTime == 16000
MaxMalformed == 2
MaxMalformedTime == 1500
MaxSaveEdits == 2
MaxMoves == 3
MaxCursorTime == 62
MaxDegradedEdits == 2
MaxReconnects == 1
MaxStorePuts == 2
MaxEvictEvents == 2
MaxEvictTime == 20000
MaxTeardownEdits == 1
MaxSingleEdits == 3
MaxSingleTime == 1500
MaxPairHandled == 2
MaxPairTime == 1500
MaxNotes == 1
MaxActivityEdits == 14
MaxActivityRepeats == 1
MaxActivityTime == 1200

\* ------------------------------------------------------- program constants
DedupWindow == 1500
CacheMax == 32
StaleAfter == 12000
SweepEvery == 4000
ActivityWindow == 1200
ActivityMax == 12
ThreadMax == 30
ThrottleMs == 30

\* ------------------------------------------------------------- identities
Clients == {"u1", "u2"}
Users == {"u1", "u2", "u3"}
UserName(u) == CASE u = "u1" -> "Ann" [] u = "u2" -> "Bob" [] OTHER -> "Cyd"

Null == "<null>"
Undef == "<undefined>"
\* undefined where a number is expected, and NaN; the coordinates of the
\* model are not negative
UndefNum == -2
NaN == -1

\* ------------------------------------------------- ordered JS objects
Keys(obj) == [i \in 1..Len(obj) |-> obj[i][1]]
KeySet(obj) == {obj[i][1] : i \in 1..Len(obj)}
HasKey(obj, k) == \E i \in 1..Len(obj) : obj[i][1] = k
\* obj[k], undefined when the key is missing
Get(obj, k) ==
  IF HasKey(obj, k)
  THEN obj[CHOOSE i \in 1..Len(obj) : obj[i][1] = k][2]
  ELSE Undef
\* { ...obj, [k]: v }: an existing key keeps its position, a new key is appended
SpreadSet(obj, k, v) ==
  IF HasKey(obj, k)
  THEN [i \in 1..Len(obj) |-> IF obj[i][1] = k THEN <<k, v>> ELSE obj[i]]
  ELSE Append(obj, <<k, v>>)
Last(seq) == seq[Len(seq)]
Take(s, n) == IF Len(s) <= n THEN s ELSE SubSeq(s, 1, n)
\* a ?? b
Coalesce(a, b) == IF a = Undef \/ a = Null THEN b ELSE a

\* ------------------------------------------------------- configurator.ts
\* base_models_10.json is data outside the sources; two base models with
\* two attributes of two options each stand for it.
BASE_MODELS ==
  << [name |-> "Aster", brand |-> "Nova", basePrice |-> 100,
      options |-> << <<"color", <<"red", "blue">> >>,
                     <<"wheels", <<"w17", "w18">> >> >>],
     [name |-> "Birch", brand |-> "Orca", basePrice |-> 200,
      options |-> << <<"roof", <<"hard", "soft">> >>,
                     <<"trim", <<"base", "lux">> >> >>] >>

listBaseModels == BASE_MODELS

getBaseModel(modelName) ==
  IF \E i \in 1..Len(BASE_MODELS) : BASE_MODELS[i].name = modelName
  THEN BASE_MODELS[CHOOSE i \in 1..Len(BASE_MODELS) : BASE_MODELS[i].name = modelName]
  ELSE BASE_MODELS[1]

\* createConfigFromVariant(modelName) without a variant: first option of
\* every attribute of the model, in the model's attribute order
createConfigFromVariant(modelName) ==
  LET model == getBaseModel(modelName) IN
  [model |-> model.name, brand |-> model.brand, basePrice |-> model.basePrice,
   selections |-> [i \in 1..Len(model.options) |->
                     <<model.options[i][1],
                       IF Len(model.options[i][2]) > 0 THEN model.options[i][2][1] ELSE "">>]]

\* getOptionsForModel(modelName): the attribute/options pairs the UI renders
getOptionsForModel(modelName) == getBaseModel(modelName).options

defaultBaseModel == listBaseModels[1].name

NoConfig == [model |-> "", brand |-> "", basePrice |-> 0, selections |-> <<>>]
NoComment == [id |-> "", attribute |-> "", user |-> "", text |-> "", timestamp |-> 0]

\* ------------------------------------------------------ presence registry
COLOR_PALETTE ==
  << "#7C3AED", "#2563EB", "#0EA5E9", "#059669", "#F59E0B",
     "#EC4899", "#14B8A6", "#E11D48", "#8B5CF6", "#6366F1",
     "#10B981", "#F97316", "#EF4444", "#06B6D4", "#84CC16",
     "#A855F7", "#F59E0B", "#22D3EE", "#4ADE80", "#FB7185" >>

\* a colour: a palette entry (hue = -1) or the hsl fallback (hex = "")
PaletteColor(hex) == [hex |-> hex, hue |-> -1]
HslColor(hue) == [hex |-> "", hue |-> hue]

\* a getColorForId that takes the palette entry at the position of the
\* registry's size instead of the first unused one
getColorForIdByCount(reg, id) ==
  IF id \in DOMAIN reg THEN reg[id]
  ELSE IF Cardinality(DOMAIN reg) < Len(COLOR_PALETTE)
       THEN PaletteColor(COLOR_PALETTE[Cardinality(DOMAIN reg) + 1])
       ELSE HslColor((Cardinality(DOMAIN reg) * 137) % 360)

\* a getColorForId without the early return for a registered id
getColorForIdAnew(reg, id) ==
  LET used == {reg[k] : k \in DOMAIN reg}
      free == {i \in 1..Len(COLOR_PALETTE) : PaletteColor(COLOR_PALETTE[i]) \notin used}
  IN IF free # {}
     THEN PaletteColor(COLOR_PALETTE[CHOOSE i \in free : \A j \in free : i <= j])
     ELSE HslColor((Cardinality(DOMAIN reg) * 137) % 360)

\* getColorForId(id): the colour returned, reading the registry reg
\* (a function from the ids registered so far to their colours)
getColorForId(reg, id) ==
  IF id \in DOMAIN reg THEN reg[id]
  ELSE LET used == {reg[k] : k \in DOMAIN reg}
           free == {i \in 1..Len(COLOR_PALETTE) : PaletteColor(COLOR_PALETTE[i]) \notin used}
           fallbackHue == (Cardinality(DOMAIN reg) * 137) % 360
       IN IF free # {}
          THEN PaletteColor(COLOR_PALETTE[CHOOSE i \in free : \A j \in free : i <= j])
          ELSE HslColor(fallbackHue)

\* the registry after getColorForId(id)
RegisterColor(reg, id) ==
  IF id \in DOMAIN reg THEN reg
  ELSE [k \in DOMAIN reg \cup {id} |-> IF k = id THEN getColorForId(reg, id) ELSE reg[k]]

\* upsertPeer(incoming): { ...prev, [id]: { ...prev[id], ...incoming, color } };
\* incoming carries id, username, x, y, lastSeen and focus, so every field
\* but the colour comes from incoming
upsertPeer(prev, reg, incoming) ==
  LET color == IF incoming.id \in DOMAIN prev
               THEN prev[incoming.id].color
               ELSE getColorForId(reg, incoming.id)
      merged == [id |-> incoming.id, username |-> incoming.username,
                 x |-> incoming.x, y |-> incoming.y,
                 lastSeen |-> incoming.lastSeen, focus |-> incoming.focus,
                 color |-> color]
  IN [k \in DOMAIN prev \cup {incoming.id} |-> IF k = incoming.id THEN merged ELSE prev[k]]

\* the colour registry after upsertPeer(incoming): getColorForId runs only
\* when prev has no entry for the id
upsertPeerRegistry(prev, reg, incoming) ==
  IF incoming.id \in DOMAIN prev THEN reg ELSE RegisterColor(reg, incoming.id)

\* a sweep that tests a peer against the interval of the sweep instead of
\* the time to live
FreshForOneInterval(peer, t) == t - peer.lastSeen < SweepEvery

\* a sweep that gives a stale peer one more interval
FreshWithGrace(peer, t) == t - peer.lastSeen < StaleAfter + SweepEvery

\* the sweep's test: a peer is kept when now - peer.lastSeen < 12000
Fresh(peer, t) == t - peer.lastSeen < StaleAfter

\* the interval callback: the registry restricted to the fresh peers
sweep(prev, t) ==
  [k \in {p \in DOMAIN prev : Fresh(prev[p], t)} |-> prev[k]]

\* peersRef.current[id]?.focus, peersRef.current[id]?.x ?? 0, ...y ?? 0
RefFocus(ref, id) == IF id \in DOMAIN ref THEN ref[id].focus ELSE Undef
RefX(ref, id) == IF id \in DOMAIN ref /\ ref[id].x # UndefNum THEN ref[id].x ELSE 0
RefY(ref, id) == IF id \in DOMAIN ref /\ ref[id].y # UndefNum THEN ref[id].y ELSE 0

\* ---------------------------------------------------- deduplication filter
\* coordinates are kept in halves (21 is 10.5); Math.round rounds .5 up
Round(v) == IF v = UndefNum THEN NaN ELSE (v + 1) \div 2

\* typed[field] of a payload, undefined when the payload lacks the field
NumberAt(typed, field) == IF field \in typed.missing THEN UndefNum ELSE typed[field]
UsernameOf(typed) == IF "username" \in typed.missing THEN Undef ELSE typed.username

\* a fingerprint of the kind and the sender alone
messageKeyOfSender(typed) == <<typed.kind, typed.userId>>

\* messageKey: the fingerprint of an event
messageKey(typed) ==
  CASE typed.kind = "cursor" -> <<"cursor", typed.userId, Round(NumberAt(typed, "x")), Round(NumberAt(typed, "y"))>>
    [] typed.kind = "focus" -> <<"focus", typed.userId, Coalesce(typed.field, "null")>>
    [] typed.kind = "config" -> <<"config", typed.userId, typed.config.selections>>
    [] typed.kind = "comment" -> <<"comment", typed.userId, typed.comment.id>>
    [] typed.kind = "project-meta" -> <<"meta", typed.userId, Keys(typed.project)>>
    [] OTHER -> <<typed.kind, typed.userId>>

\* a filter that looks the fingerprint up and forgets the window
alreadyWhenever(recent, key, t) ==
  \E i \in 1..Len(recent) : recent[i].key = key

\* recent.find((item) => item.key === messageKey && now - item.seen < 1500)
already(recent, key, t) ==
  \E i \in 1..Len(recent) : recent[i].key = key /\ t - recent[i].seen < DedupWindow

\* a cache that keeps the newest entry alone
rememberLatest(recent, key, t) == <<[key |-> key, seen |-> t]>>

\* a cache that is never cut
rememberAll(recent, key, t) == <<[key |-> key, seen |-> t]>> \o recent

\* [{ key, seen: now }, ...recent].slice(0, 32)
remember(recent, key, t) == Take(<<[key |-> key, seen |-> t]>> \o recent, CacheMax)

\* a filter that stamps the matching entries anew when it drops a duplicate
afterDuplicateRefreshed(recent, key, t) ==
  [i \in 1..Len(recent) |-> IF recent[i].key = key THEN [key |-> key, seen |-> t] ELSE recent[i]]

\* if (already) return; the cache is not written
afterDuplicate(recent, key, t) == recent

\* ------------------------------------------------------------ activity log
\* a feed that is never cut
pushActivityUncut(items, message, user, t) ==
  IF Len(items) > 0 /\ items[1].message = message /\ items[1].user = user
     /\ t - items[1].timestamp < ActivityWindow
  THEN items
  ELSE <<[message |-> message, user |-> user, timestamp |-> t]>> \o items

\* pushActivity(message, user) at time t; the random id of an item is not kept
pushActivity(items, message, user, t) ==
  IF Len(items) > 0 /\ items[1].message = message /\ items[1].user = user
     /\ t - items[1].timestamp < ActivityWindow
  THEN items
  ELSE Take(<<[message |-> message, user |-> user, timestamp |-> t]>> \o items, ActivityMax)

\* ---------------------------------------------------------------- comments
\* Array.prototype.sort((a, b) => a.timestamp - b.timestamp): the sort is
\* stable, so an item goes behind the items before it that are not later
InsertByTimestamp(sorted, item) ==
  LET later == {i \in 1..Len(sorted) : sorted[i].timestamp > item.timestamp}
      at == IF later = {} THEN Len(sorted) + 1 ELSE CHOOSE i \in later : \A j \in later : i <= j
  IN SubSeq(sorted, 1, at - 1) \o <<item>> \o SubSeq(sorted, at, Len(sorted))

\* the items sorted one after another; sorted[k] is the first k items in order
SortByTimestamp(s) ==
  LET sorted[k \in 0..Len(s)] ==
        IF k = 0 THEN <<>> ELSE InsertByTimestamp(sorted[k - 1], s[k])
  IN sorted[Len(s)]

\* a thread that appends the incoming comment without removing the one of
\* the same id
nextThreadAppended(existing, incoming) ==
  Take(SortByTimestamp(Append(existing, incoming)), ThreadMax)

\* the thread upsertComment builds for incoming.attribute
nextThread(existing, incoming) ==
  LET NotSame(item) == item.id # incoming.id
  IN Take(SortByTimestamp(Append(SelectSeq(existing, NotSame), incoming)), ThreadMax)

\* upsertComment(incoming): { ...prev, [incoming.attribute]: nextThread }
upsertComment(prev, incoming) ==
  LET existing == IF HasKey(prev, incoming.attribute) THEN Get(prev, incoming.attribute) ELSE <<>>
  IN SpreadSet(prev, incoming.attribute, nextThread(existing, incoming))

\* ------------------------------------------------------ document reconciler
\* an updater that forgets to spread the previous selections
applyLocalEditAlone(prev, attribute, value) ==
  [prev EXCEPT !.selections = <<<<attribute, value>>>>]

\* the value setConfig's updater returns in updateConfig
applyLocalEdit(prev, attribute, value) ==
  [prev EXCEPT !.selections = SpreadSet(prev.selections, attribute, value)]

\* a merge in which the selections of the receiver win
applyRemoteConfigKeepLocal(prev, received) ==
  [received EXCEPT !.selections =
     [i \in 1..Len(@) |->
        IF HasKey(prev.selections, @[i][1])
        THEN <<@[i][1], Get(prev.selections, @[i][1])>>
        ELSE @[i]]]

\* a merge that takes from the received document the selections that differ
\* from the model's defaults and keeps the receiver's for the others
applyRemoteConfigChanged(prev, received) ==
  LET defaults == createConfigFromVariant(received.model).selections IN
  [received EXCEPT !.selections =
     [i \in 1..Len(@) |->
        IF @[i][2] = Get(defaults, @[i][1]) /\ HasKey(prev.selections, @[i][1])
        THEN <<@[i][1], Get(prev.selections, @[i][1])>>
        ELSE @[i]]]

\* setConfig(typed.config) in handleIncoming
applyRemoteConfig(prev, received) == received

\* the attributes and options the workspace renders for the current document
EditChoices(doc) ==
  LET opts == getOptionsForModel(doc.model)
  IN UNION {{<<opts[i][1], opts[i][2][j]>> : j \in 1..Len(opts[i][2])} : i \in 1..Len(opts)}

\* a sanitizeConfig that keeps the model name of the payload
sanitizeConfigKeepModel(payload) ==
  LET base == getBaseModel(payload.model)
  IN [model |-> payload.model, brand |-> base.brand, basePrice |-> base.basePrice,
      selections |-> payload.selections]

\* sanitizeConfig(payload) of the config route (payload has model and selections)
sanitizeConfig(payload) ==
  LET base == getBaseModel(payload.model)
  IN [model |-> base.name, brand |-> base.brand, basePrice |-> base.basePrice,
      selections |-> payload.selections]

\* ----------------------------------------------------- collaboration events
\* one record shape for the five kinds; the fields a kind does not carry
\* hold a neutral value of their type
BlankMessage(kind, userId) ==
  [kind |-> kind, userId |-> userId, username |-> UserName(userId),
   x |-> 0, y |-> 0, field |-> Null, config |-> NoConfig,
   project |-> <<>>, comment |-> NoComment, missing |-> {}]
\* a payload that lacks a field
Without(message, field) == [message EXCEPT !.missing = @ \cup {field}]

CursorMessage(u, x, y) == [BlankMessage("cursor", u) EXCEPT !.x = x, !.y = y]
FocusMessage(u, field) == [BlankMessage("focus", u) EXCEPT !.field = field]
ConfigMessage(u, doc) == [BlankMessage("config", u) EXCEPT !.config = doc]
CommentMessage(u, comment) == [BlankMessage("comment", u) EXCEPT !.comment = comment]
MetaMessage(u, project) == [BlankMessage("project-meta", u) EXCEPT !.project = project]

\* the connections the relay may hold and the projects they may name
Sockets == {"s1", "s2", "s3"}
ProjectIds == {"p1", "p2"}

Channels == {"bc", "io"}
Links == {l \in Channels \X Clients \X Clients : l[2] # l[3]}

\* ------------------------------------------------------------------- state
VARIABLES
  now,             \* Date.now(), in ms
  config,          \* config[c]: the configuration document (useState)
  hasRemoteConfig, \* hasRemoteConfig[c]: the ref of the same name
  peers,           \* peers[c]: the presence registry (useState)
  peersRef,        \* peersRef[c]: the snapshot the peersRef effect keeps
  colorRegistry,   \* colorRegistry[c]: colorRegistryRef
  recentMessages,  \* recentMessages[c]: recentMessagesRef, newest first
  activity,        \* activity[c]: the activity feed, newest first
  comments,        \* comments[c]: attribute -> thread
  projectMeta,     \* projectMeta[c]
  net,             \* net[<<channel, sender, receiver>>]: events in flight
  store,           \* the config the key-value cache holds (NoConfig: none)
  puts,            \* PUT requests of persistConfig in flight
  fetchPc,         \* fetchPc[c]: where the fetchProjects effect stands
  fetchResp,       \* fetchResp[c]: the config response on its way back
  sweepAt,         \* sweepAt[c]: when the sweep interval fires next
  hist,            \* hist[c]: the remote events c handled (history)
  lastApplied,     \* lastApplied[c]: the document of c's latest local edit or
                   \* accepted remote config event (history; NoConfig: none yet)
  edits,           \* the number of local edits made (history)
  echoes,          \* echoes[c]: the number of its own events c was handed, modulo 2
                   \* (history)
  handshake,       \* handshake[s]: the projectId values of connection s's query
  rooms,           \* rooms[r]: the connections of the relay that are in room r
  received,        \* received[s]: the "collab-message" events emitted to s
  sent,            \* the events the relay was sent: sender and payload (history)
  saveStatus,      \* saveStatus[c]: the save status line (useState; Null: empty)
  clearTimers,     \* clearTimers[c]: pending setTimeout(() => setSaveStatus(null), 1000)
  putReplies,      \* responses of the config route's PUT on their way back
  lastCursorSent,  \* lastCursorSent[c]: the ref of the same name, on the model's clock
  moves,           \* moves[c]: the mouse moves c handled: when, and whether it
                   \* published (history)
  socketOpen,      \* socketOpen[c]: the socket of c is connected to the relay
  sendBuffer,      \* sendBuffer[c]: what c's socket was given while not connected
  mounted,         \* mounted[c]: the workspace of c is rendered (its effects are set up)
  commentStore,    \* the comment threads the cache holds for the session
  posts,           \* the POST requests of persistComments that are in flight
  notes            \* notes[c]: the comments c has added (history)

vars ==
  <<now, config, hasRemoteConfig, peers, peersRef, colorRegistry, recentMessages,
    activity, comments, projectMeta, net, store, puts, fetchPc, fetchResp,
    sweepAt, hist, lastApplied, edits, echoes, handshake, rooms, received, sent,
    saveStatus, clearTimers, putReplies, lastCursorSent, moves, socketOpen, sendBuffer, mounted,
    commentStore, posts, notes>>

\* the state of the socket of a client
socketVars == <<socketOpen, sendBuffer, mounted>>

\* the state of persistComments
commentVars == <<commentStore, posts, notes>>

\* the state of handleMouseMove
cursorVars == <<lastCursorSent, moves>>

\* the state of persistConfig
saveVars == <<saveStatus, clearTimers, putReplies>>

\* the state of the relay and of its connections
relayVars == <<handshake, rooms, received, sent>>

fallbackTitle == "demo-project"
\* Date.now() when the model's clock reads 0; useRef<number>(0) is that long
\* before the clock's origin
Epoch == 100000
NoPeers == [k \in {} |-> 0]
\* the registry after the first render with the identity known: the header
\* renders the participant's own badge with getColorForId(userId), before
\* the channel and socket effects subscribe
SelfBadge(c) == RegisterColor(NoPeers, c)

Init ==
  /\ now = 0
  /\ config = [c \in Clients |-> createConfigFromVariant(defaultBaseModel)]
  /\ hasRemoteConfig = [c \in Clients |-> FALSE]
  /\ peers = [c \in Clients |-> NoPeers]
  /\ peersRef = [c \in Clients |-> NoPeers]
  /\ colorRegistry = [c \in Clients |-> SelfBadge(c)]
  /\ recentMessages = [c \in Clients |-> <<>>]
  /\ activity = [c \in Clients |-> <<>>]
  /\ comments = [c \in Clients |-> <<>>]
  /\ projectMeta = [c \in Clients |->
       [title |-> fallbackTitle, description |-> "", baseModel |-> defaultBaseModel]]
  /\ net = [l \in Links |-> <<>>]
  /\ store = NoConfig
  /\ puts = {}
  /\ fetchPc = [c \in Clients |-> "start"]
  /\ fetchResp = [c \in Clients |-> [ok |-> FALSE, config |-> NoConfig]]
  /\ sweepAt = [c \in Clients |-> SweepEvery]
  /\ hist = [c \in Clients |-> <<>>]
  /\ lastApplied = [c \in Clients |-> NoConfig]
  /\ edits = 0
  /\ echoes = [c \in Clients |-> 0]
  /\ handshake = [s \in {} |-> <<>>]
  /\ rooms = [r \in ProjectIds |-> {}]
  /\ received = [s \in Sockets |-> <<>>]
  /\ sent = <<>>
  /\ saveStatus = [c \in Clients |-> Null]
  /\ clearTimers = [c \in Clients |-> 0]
  /\ putReplies = {}
  /\ lastCursorSent = [c \in Clients |-> 0 - Epoch]
  /\ moves = [c \in Clients |-> <<>>]
  /\ socketOpen = [c \in Clients |-> TRUE]
  /\ sendBuffer = [c \in Clients |-> <<>>]
  /\ mounted = [c \in Clients |-> TRUE]
  /\ commentStore = <<>>
  /\ posts = {}
  /\ notes = [c \in Clients |-> 0]

\* ------------------------------------------------------------------ actions
\* what the receiver gets: socket.io serialises as JSON, which drops the keys
\* of an object whose value is undefined; BroadcastChannel's structured clone
\* keeps them
Defined(pair) == pair[2] # Undef
jsonClone(message) == [message EXCEPT !.project = SelectSeq(@, Defined)]
OnWire(channel, message) == IF channel = "io" THEN jsonClone(message) ELSE message

\* an emit that publishes on the socket and leaves the BroadcastChannel out
emitOnSocket(queues, sender, message, attribute) ==
  [l \in Links |->
     IF l[2] = sender /\ l[1] = "io"
     THEN Append(queues[l], [msg |-> OnWire(l[1], message), attribute |-> attribute])
     ELSE queues[l]]

\* an emit that publishes nothing while the socket is not connected
emitWhenConnected(queues, sender, message, attribute) ==
  [l \in Links |->
     IF l[2] = sender /\ socketOpen[sender]
     THEN Append(queues[l], [msg |-> OnWire(l[1], message), attribute |-> attribute])
     ELSE queues[l]]

\* emit(message): postMessage on the BroadcastChannel and socket.emit, which
\* the relay forwards to the other members of the room.  attribute is kept
\* beside the event in flight (history: the attribute a local edit set).
\* After the cleanups channelRef.current is the closed channel, whose
\* postMessage throws, and socketRef.current is null.
emit(queues, sender, message, attribute) ==
  [l \in Links |->
     IF l[2] = sender /\ mounted[sender] /\ (l[1] = "bc" \/ socketOpen[sender])
     THEN Append(queues[l], [msg |-> OnWire(l[1], message), attribute |-> attribute])
     ELSE queues[l]]

\* socket.emit on a socket that is not connected: the event waits in the
\* socket's send buffer
buffered(sender, message, attribute) ==
  IF socketOpen[sender] \/ ~mounted[sender]
  THEN sendBuffer
  ELSE [sendBuffer EXCEPT ![sender] =
          Append(@, [msg |-> OnWire("io", message), attribute |-> attribute])]

\* the state handleIncoming reads and writes
clientVars ==
  <<config, hasRemoteConfig, peers, colorRegistry, recentMessages, activity,
    comments, projectMeta>>

\* the peer update of the cursor and focus branches
IncomingPeer(c, typed) ==
  IF typed.kind = "cursor"
  THEN [id |-> typed.userId, username |-> UsernameOf(typed),
        x |-> NumberAt(typed, "x"), y |-> NumberAt(typed, "y"),
        lastSeen |-> now, focus |-> RefFocus(peersRef[c], typed.userId)]
  ELSE [id |-> typed.userId, username |-> UsernameOf(typed),
        x |-> RefX(peersRef[c], typed.userId), y |-> RefY(peersRef[c], typed.userId),
        lastSeen |-> now, focus |-> typed.field]

\* the kinds whose branch calls upsertPeer
TouchesPeer(kind) == kind \in {"cursor", "focus"}

\* the project-meta branch
mergeMeta(prev, project) ==
  [title |-> Coalesce(Get(project, "title"), prev.title),
   description |-> Coalesce(Get(project, "description"), prev.description),
   baseModel |-> Coalesce(Get(project, "baseModel"), prev.baseModel)]

\* the kind dispatch of handleIncoming, for an event that passed the filter
ApplyIncoming(c, typed) ==
  /\ peers' = [peers EXCEPT ![c] =
       IF TouchesPeer(typed.kind)
       THEN upsertPeer(@, colorRegistry[c], IncomingPeer(c, typed)) ELSE @]
  /\ colorRegistry' = [colorRegistry EXCEPT ![c] =
       IF TouchesPeer(typed.kind)
       THEN upsertPeerRegistry(peers[c], @, IncomingPeer(c, typed)) ELSE @]
  /\ hasRemoteConfig' = [hasRemoteConfig EXCEPT ![c] = (typed.kind = "config") \/ @]
  /\ config' = [config EXCEPT ![c] =
       IF typed.kind = "config" THEN applyRemoteConfig(@, typed.config) ELSE @]
  /\ activity' = [activity EXCEPT ![c] =
       IF typed.kind = "config"
       THEN pushActivity(@, <<"adjusted", UsernameOf(typed)>>, UsernameOf(typed), now) ELSE @]
  /\ comments' = [comments EXCEPT ![c] =
       IF typed.kind = "comment" THEN upsertComment(@, typed.comment) ELSE @]
  /\ projectMeta' = [projectMeta EXCEPT ![c] =
       IF typed.kind = "project-meta" THEN mergeMeta(@, typed.project) ELSE @]

\* a test that lets every event through
FromSelfNever(c, raw) == FALSE

\* if (raw.userId === userId) return;
FromSelf(c, raw) == raw.userId = c

\* isCollabMessage(payload): an object with the keys kind and userId
isCollabMessage(payload) == "kind" \notin payload.missing /\ "userId" \notin payload.missing

\* the messageKey expression reads a property of undefined and throws a
\* TypeError: typed.config.selections, typed.comment.id, Object.keys(typed.project)
Throws(typed) ==
  \/ typed.kind = "config" /\ "config" \in typed.missing
  \/ typed.kind = "comment" /\ "comment" \in typed.missing
  \/ typed.kind = "project-meta" /\ "project" \in typed.missing

\* what hist keeps of a handled event: accepted is whether it passed the
\* filter, threw whether handleIncoming ended in an exception
Handling(raw, accepted, threw) ==
  [msg |-> raw, at |-> now, accepted |-> accepted, threw |-> threw]

\* handleIncoming(raw) in client c
handleIncoming(c, raw) ==
  IF ~isCollabMessage(raw)
  THEN /\ hist' = [hist EXCEPT ![c] = Append(@, Handling(raw, FALSE, FALSE))]
       /\ UNCHANGED <<clientVars, lastApplied, echoes>>
  ELSE IF FromSelf(c, raw)
  THEN /\ echoes' = [echoes EXCEPT ![c] = 1 - @]
       /\ UNCHANGED <<clientVars, hist, lastApplied>>
  ELSE IF Throws(raw)
  THEN /\ hist' = [hist EXCEPT ![c] = Append(@, Handling(raw, FALSE, TRUE))]
       /\ UNCHANGED <<clientVars, lastApplied, echoes>>
  ELSE IF already(recentMessages[c], messageKey(raw), now)
       THEN /\ hist' = [hist EXCEPT ![c] = Append(@, Handling(raw, FALSE, FALSE))]
            /\ recentMessages' = [recentMessages EXCEPT ![c] = afterDuplicate(@, messageKey(raw), now)]
            /\ UNCHANGED <<config, hasRemoteConfig, peers, colorRegistry, activity,
                           comments, projectMeta, lastApplied, echoes>>
       ELSE /\ hist' = [hist EXCEPT ![c] = Append(@, Handling(raw, TRUE, FALSE))]
            /\ UNCHANGED echoes
            /\ lastApplied' = [lastApplied EXCEPT ![c] =
                 IF raw.kind = "config" THEN raw.config ELSE @]
            /\ recentMessages' = [recentMessages EXCEPT ![c] = remember(@, messageKey(raw), now)]
            /\ ApplyIncoming(c, raw)

\* a listener that outlives the cleanups
listenerKept(c, raw) == handleIncoming(c, raw)

\* the "message" listener of the channel and the "collab-message" listener
\* of the socket, which the cleanups remove
listener(c, raw) ==
  IF mounted[c]
  THEN handleIncoming(c, raw)
  ELSE UNCHANGED <<clientVars, hist, lastApplied, echoes>>

\* an event in flight reaches its receiver (channel listener / socket.on)
Deliver(l) ==
  /\ net[l] # <<>>
  /\ listener(l[3], Head(net[l]).msg)
  /\ net' = [net EXCEPT ![l] = Tail(@)]
  /\ UNCHANGED <<relayVars, cursorVars, commentVars, socketVars, saveVars, now, peersRef, store, puts, fetchPc, fetchResp, sweepAt, edits>>

\* updateConfig(attribute, value) in client c, from the option pills
updateConfig(c, attribute, value) ==
  LET next == applyLocalEdit(config[c], attribute, value)
      username == UserName(c)
  IN /\ mounted[c]
     /\ <<attribute, value>> \in EditChoices(config[c])
     /\ config' = [config EXCEPT ![c] = next]
     /\ hasRemoteConfig' = [hasRemoteConfig EXCEPT ![c] = TRUE]
     /\ net' = emit(net, c, ConfigMessage(c, next), attribute)
     /\ sendBuffer' = buffered(c, ConfigMessage(c, next), attribute)
     /\ activity' = [activity EXCEPT ![c] =
          pushActivity(@, <<"set", username, attribute, value>>, username, now)]
     /\ puts' = puts \cup {[n |-> edits + 1, from |-> c, doc |-> next]}
     /\ edits' = edits + 1
     /\ lastApplied' = [lastApplied EXCEPT ![c] = next]
     /\ saveStatus' = [saveStatus EXCEPT ![c] = "Saving..."]
     /\ UNCHANGED <<relayVars, cursorVars, commentVars, socketOpen, mounted, clearTimers, putReplies, now, peers, peersRef, colorRegistry,
                    recentMessages, comments, projectMeta, store, fetchPc, fetchResp, sweepAt,
                    hist, echoes>>

\* randomId() in client c: the ids of two clients never meet
OwnIds ==
  [c \in Clients |->
     IF c = "u1" THEN <<"a1", "a2", "a3", "a4">> ELSE <<"b1", "b2", "b3", "b4">>]

\* the payload of persistComments(latest):
\* { ...comments, [latest.attribute]: [...(comments[latest.attribute] ?? []), latest] }
persistPayload(threads, latest) ==
  SpreadSet(threads, latest.attribute,
            Append(IF HasKey(threads, latest.attribute)
                   THEN Get(threads, latest.attribute) ELSE <<>>, latest))

\* addComment(attribute) in client c with a draft that is not blank
addComment(c, attribute) ==
  LET username == UserName(c)
      comment == [id |-> OwnIds[c][notes[c] + 1], attribute |-> attribute,
                  user |-> username, text |-> "note", timestamp |-> now]
  IN /\ mounted[c]
     /\ comments' = [comments EXCEPT ![c] = upsertComment(@, comment)]
     /\ net' = emit(net, c, CommentMessage(c, comment), Null)
     /\ sendBuffer' = buffered(c, CommentMessage(c, comment), Null)
     /\ activity' = [activity EXCEPT ![c] =
          pushActivity(@, <<"note", username, attribute>>, username, now)]
     /\ posts' = posts \cup {[from |-> c, comments |-> persistPayload(comments[c], comment)]}
     /\ notes' = [notes EXCEPT ![c] = @ + 1]
     /\ UNCHANGED <<relayVars, cursorVars, saveVars, socketOpen, mounted, commentStore, now,
                    config, hasRemoteConfig, peers, peersRef, colorRegistry, recentMessages,
                    projectMeta, store, puts, fetchPc, fetchResp, sweepAt, hist, lastApplied,
                    edits, echoes>>

\* POST of the comments route reaches the cache: the threads of the body
\* replace the stored ones
ServerPostComments(p) ==
  /\ p \in posts
  /\ commentStore' = p.comments
  /\ posts' = posts \ {p}
  /\ UNCHANGED <<relayVars, cursorVars, saveVars, socketVars, notes, now, clientVars, peersRef,
                 net, store, puts, fetchPc, fetchResp, sweepAt, hist, lastApplied, edits, echoes>>

\* the response to PUT request p
Reply(p, status) == [n |-> p.n, from |-> p.from, status |-> status]

\* the config route's PUT reaches the cache
ServerPut(p) ==
  /\ p \in puts
  /\ store' = sanitizeConfig(p.doc)
  /\ puts' = puts \ {p}
  /\ putReplies' = putReplies \cup {Reply(p, 200)}
  /\ UNCHANGED <<relayVars, cursorVars, commentVars, socketVars, saveStatus, clearTimers, now, clientVars, peersRef, net, fetchPc,
                 fetchResp, sweepAt, hist, lastApplied, edits, echoes>>

\* the PUT of a deployment without REDIS_URL: if (!redis) ... status 503
ServerPutUnavailable(p) ==
  /\ p \in puts
  /\ puts' = puts \ {p}
  /\ putReplies' = putReplies \cup {Reply(p, 503)}
  /\ UNCHANGED <<relayVars, cursorVars, commentVars, socketVars, saveStatus, clearTimers, now, clientVars, peersRef, net, store,
                 fetchPc, fetchResp, sweepAt, hist, lastApplied, edits, echoes>>

\* the PUT whose redis.set rejects (the cache cannot be reached): status 400
ServerPutError(p) ==
  /\ p \in puts
  /\ puts' = puts \ {p}
  /\ putReplies' = putReplies \cup {Reply(p, 400)}
  /\ UNCHANGED <<relayVars, cursorVars, commentVars, socketVars, saveStatus, clearTimers, now, clientVars, peersRef, net, store,
                 fetchPc, fetchResp, sweepAt, hist, lastApplied, edits, echoes>>

\* the status line after await fetch(...) resolves: the response is not read
saveStatusAfter(r) == "Saved"

\* persistConfig resumes after await fetch(...): the promise resolves with
\* the response, whatever its status
PutResolved(r) ==
  /\ r \in putReplies
  /\ putReplies' = putReplies \ {r}
  /\ saveStatus' = [saveStatus EXCEPT ![r.from] = saveStatusAfter(r)]
  /\ clearTimers' = [clearTimers EXCEPT ![r.from] = @ + 1]
  /\ UNCHANGED <<relayVars, cursorVars, commentVars, socketVars, now, clientVars, peersRef, net, store, puts, fetchPc, fetchResp,
                 sweepAt, hist, lastApplied, edits, echoes>>

\* a catch branch that also puts the document back to the default one
PutRejectedRollback(p) ==
  /\ p \in puts
  /\ puts' = puts \ {p}
  /\ saveStatus' = [saveStatus EXCEPT ![p.from] = "Save failed"]
  /\ config' = [config EXCEPT ![p.from] = createConfigFromVariant(defaultBaseModel)]
  /\ UNCHANGED <<relayVars, cursorVars, commentVars, socketVars, clearTimers, putReplies, now, hasRemoteConfig, peers, colorRegistry,
                 recentMessages, activity, comments, projectMeta, peersRef, net, store,
                 fetchPc, fetchResp, sweepAt, hist, lastApplied, edits, echoes>>

\* the fetch of persistConfig rejects (the request does not reach the
\* server): the catch branch
PutRejected(p) ==
  /\ p \in puts
  /\ puts' = puts \ {p}
  /\ saveStatus' = [saveStatus EXCEPT ![p.from] = "Save failed"]
  /\ UNCHANGED <<relayVars, cursorVars, commentVars, socketVars, clearTimers, putReplies, now, clientVars, peersRef, net, store,
                 fetchPc, fetchResp, sweepAt, hist, lastApplied, edits, echoes>>

\* a timer of persistConfig fires: setSaveStatus(null)
SaveTimer(c) ==
  /\ clearTimers[c] > 0
  /\ clearTimers' = [clearTimers EXCEPT ![c] = @ - 1]
  /\ saveStatus' = [saveStatus EXCEPT ![c] = Null]
  /\ UNCHANGED <<relayVars, cursorVars, commentVars, socketVars, putReplies, now, clientVars, peersRef, net, store, puts, fetchPc,
                 fetchResp, sweepAt, hist, lastApplied, edits, echoes>>

\* a throttle that opens at 30 ms
throttleOpenAt(last, t) == t - last >= ThrottleMs

\* now - lastCursorSent.current > 30
throttleOpen(last, t) == t - last > ThrottleMs

\* handleMouseMove(event) in client c, the pointer at (x, y) of the canvas
handleMouseMove(c, x, y) ==
  LET open == throttleOpen(lastCursorSent[c], now)
  IN /\ mounted[c]
     /\ moves' = [moves EXCEPT ![c] = Append(@, [at |-> now, published |-> open])]
     /\ net' = IF open THEN emit(net, c, CursorMessage(c, x, y), Null) ELSE net
     /\ sendBuffer' = IF open THEN buffered(c, CursorMessage(c, x, y), Null) ELSE sendBuffer
     /\ lastCursorSent' = [lastCursorSent EXCEPT ![c] = IF open THEN now ELSE @]
     /\ UNCHANGED <<relayVars, commentVars, saveVars, socketOpen, mounted, now, clientVars, peersRef, store, puts, fetchPc,
                    fetchResp, sweepAt, hist, lastApplied, edits, echoes>>

\* the socket of c loses its connection to the relay, or never gets one
SocketCloses(c) ==
  /\ socketOpen[c]
  /\ socketOpen' = [socketOpen EXCEPT ![c] = FALSE]
  /\ UNCHANGED <<relayVars, cursorVars, commentVars, saveVars, sendBuffer, mounted, now, clientVars, peersRef, net, store,
                 puts, fetchPc, fetchResp, sweepAt, hist, lastApplied, edits, echoes>>

\* the socket of c connects: what waited in its send buffer is sent, and
\* the "connect" listener sends a focus event with field null
SocketOpens(c) ==
  /\ mounted[c]
  /\ ~socketOpen[c]
  /\ socketOpen' = [socketOpen EXCEPT ![c] = TRUE]
  /\ net' = [l \in Links |->
       IF l[1] = "io" /\ l[2] = c
       THEN net[l] \o sendBuffer[c]
              \o <<[msg |-> OnWire("io", FocusMessage(c, Null)), attribute |-> Null]>>
       ELSE net[l]]
  /\ sendBuffer' = [sendBuffer EXCEPT ![c] = <<>>]
  /\ UNCHANGED <<relayVars, cursorVars, commentVars, saveVars, mounted, now, clientVars, peersRef, store,
                 puts, fetchPc, fetchResp, sweepAt, hist, lastApplied, edits, echoes>>

\* the workspace of c is left (navigation away, tab closed): the cleanups of
\* the channel effect (removeEventListener, close), of the socket effect
\* (off, disconnect, socketRef.current = null) and of the sweep effect
\* (clearInterval) run one after the other
Unmount(c) ==
  /\ mounted[c]
  /\ mounted' = [mounted EXCEPT ![c] = FALSE]
  /\ socketOpen' = [socketOpen EXCEPT ![c] = FALSE]
  /\ UNCHANGED <<relayVars, cursorVars, commentVars, saveVars, sendBuffer, now, clientVars, peersRef, net, store,
                 puts, fetchPc, fetchResp, sweepAt, hist, lastApplied, edits, echoes>>

\* an event sent on the socket is lost on its way (the send fails)
SocketLoses(l) ==
  /\ l[1] = "io"
  /\ net[l] # <<>>
  /\ net' = [net EXCEPT ![l] = Tail(@)]
  /\ UNCHANGED <<relayVars, cursorVars, commentVars, saveVars, socketVars, now, clientVars, peersRef, store,
                 puts, fetchPc, fetchResp, sweepAt, hist, lastApplied, edits, echoes>>

\* the peersRef effect: peersRef.current = peers, after a render
SyncPeersRef(c) ==
  /\ peersRef[c] # peers[c]
  /\ peersRef' = [peersRef EXCEPT ![c] = peers[c]]
  /\ UNCHANGED <<relayVars, cursorVars, commentVars, socketVars, saveVars, now, clientVars, net, store, puts, fetchPc, fetchResp, sweepAt, hist, lastApplied, edits, echoes>>

\* the sweep interval fires in client c
Sweep(c) ==
  /\ mounted[c]
  /\ now = sweepAt[c]
  /\ peers' = [peers EXCEPT ![c] = sweep(@, now)]
  /\ sweepAt' = [sweepAt EXCEPT ![c] = @ + SweepEvery]
  /\ UNCHANGED <<relayVars, cursorVars, commentVars, socketVars, saveVars, now, config, hasRemoteConfig, peersRef, colorRegistry, recentMessages,
                 activity, comments, projectMeta, net, store, puts, fetchPc, fetchResp,
                 hist, lastApplied, edits, echoes>>

\* time passes by d ms, up to max; a due interval fires first
Tick(d, max) ==
  /\ now + d <= max
  /\ \A c \in Clients : mounted[c] => now + d <= sweepAt[c]
  /\ now' = now + d
  /\ UNCHANGED <<relayVars, cursorVars, commentVars, socketVars, saveVars, clientVars, peersRef, net, store, puts, fetchPc, fetchResp, sweepAt,
                 hist, lastApplied, edits, echoes>>

\* ------------------------------------------- the fetchProjects effect
\* the project the document database returns for this session
ProjectDoc == [name |-> "Demo", description |-> Undef, baseModel |-> "Birch"]

Truthy(v) == v \notin {"", Undef, Null}

\* the effect starts: the config is requested unless hasRemoteConfig is set
FetchStart(c) ==
  /\ fetchPc[c] = "start"
  /\ fetchPc' = [fetchPc EXCEPT ![c] = IF hasRemoteConfig[c] THEN "metaSent" ELSE "cfgSent"]
  /\ UNCHANGED <<relayVars, cursorVars, commentVars, socketVars, saveVars, now, clientVars, peersRef, net, store, puts, fetchResp, sweepAt, hist, lastApplied, edits, echoes>>

\* the document GET answers with: the cached one, a default one when
\* nothing is cached
getConfig(stored) ==
  IF stored = NoConfig THEN createConfigFromVariant(BASE_MODELS[1].name) ELSE stored

\* GET of the config route: the cached config, a default one when nothing
\* is cached, or a failure (cache not configured or unreachable)
ServerGetConfig(c, up) ==
  /\ fetchPc[c] = "cfgSent"
  /\ fetchPc' = [fetchPc EXCEPT ![c] = "cfgReply"]
  /\ fetchResp' = [fetchResp EXCEPT ![c] =
       IF up
       THEN [ok |-> TRUE, config |-> getConfig(store)]
       ELSE [ok |-> FALSE, config |-> NoConfig]]
  /\ UNCHANGED <<relayVars, cursorVars, commentVars, socketVars, saveVars, now, clientVars, peersRef, net, store, puts, sweepAt, hist, lastApplied, edits, echoes>>

\* the document after the config response: hasRemoteConfig was tested before
\* the await and is not tested again
loadedConfig(prev, resp) == IF resp.ok THEN resp.config ELSE prev

\* a state setter called with next: React drops the update of a component
\* that is no longer rendered
setState(c, prev, next) == IF mounted[c] THEN next ELSE prev

\* the config response arrives: setConfig(body.config); the projects
\* listing is requested next
ConfigReply(c) ==
  /\ fetchPc[c] = "cfgReply"
  /\ config' = [config EXCEPT ![c] = setState(c, @, loadedConfig(@, fetchResp[c]))]
  /\ hasRemoteConfig' = [hasRemoteConfig EXCEPT ![c] = fetchResp[c].ok \/ @]
  /\ fetchPc' = [fetchPc EXCEPT ![c] = "metaSent"]
  /\ UNCHANGED <<relayVars, cursorVars, commentVars, socketVars, saveVars, now, peers, peersRef, colorRegistry, recentMessages, activity, comments,
                 projectMeta, net, store, puts, fetchResp, sweepAt, hist, lastApplied, edits, echoes>>

\* the fallback setProjectMeta at the end of the effect
fallbackMeta(prev, doc) ==
  [title |-> IF Truthy(prev.title) THEN prev.title ELSE fallbackTitle,
   description |-> prev.description,
   baseModel |-> IF Truthy(prev.baseModel) THEN prev.baseModel
                 ELSE IF Truthy(doc.model) THEN doc.model ELSE defaultBaseModel]

\* the meta built from the matching project
matchMeta(match) ==
  [title |-> Coalesce(match.name, fallbackTitle),
   description |-> match.description,
   baseModel |-> IF Truthy(match.baseModel) THEN match.baseModel ELSE defaultBaseModel]

MetaObject(meta) ==
  << <<"title", meta.title>>, <<"description", meta.description>>,
     <<"baseModel", meta.baseModel>> >>

\* the projects listing arrives with the project ("match"), without it
\* ("nomatch"), with an error status ("notok"), or the request fails ("throw")
MetaReply(c, outcome) ==
  /\ fetchPc[c] = "metaSent"
  /\ fetchPc' = [fetchPc EXCEPT ![c] = "done"]
  /\ IF outcome = "match"
     THEN /\ projectMeta' = [projectMeta EXCEPT ![c] =
               setState(c, @, fallbackMeta(matchMeta(ProjectDoc), config[c]))]
          /\ net' = emit(net, c, MetaMessage(c, MetaObject(matchMeta(ProjectDoc))), "")
          /\ sendBuffer' = buffered(c, MetaMessage(c, MetaObject(matchMeta(ProjectDoc))), "")
          \* postMessage on the closed channel throws into the catch block
          /\ hasRemoteConfig' = [hasRemoteConfig EXCEPT ![c] = @ \/ ~mounted[c]]
          /\ UNCHANGED config
     ELSE /\ config' = [config EXCEPT ![c] =
               IF hasRemoteConfig[c] THEN @
               ELSE setState(c, @, createConfigFromVariant(defaultBaseModel))]
          /\ hasRemoteConfig' = [hasRemoteConfig EXCEPT ![c] = TRUE]
          /\ projectMeta' = [projectMeta EXCEPT ![c] =
               IF outcome = "throw" THEN @ ELSE setState(c, @, fallbackMeta(@, config[c]))]
          /\ UNCHANGED <<net, sendBuffer>>
  /\ UNCHANGED <<relayVars, cursorVars, commentVars, socketOpen, mounted, saveVars, now, peers, peersRef, colorRegistry, recentMessages, activity, comments,
                 store, puts, fetchResp, sweepAt, hist, lastApplied, edits, echoes>>

\* an event arrives at client c from outside the modelled clients (another
\* participant of the session, over either channel)
Receive(c, raw) ==
  /\ listener(c, raw)
  /\ UNCHANGED <<relayVars, cursorVars, commentVars, socketVars, saveVars, now, peersRef, net, store, puts, fetchPc, fetchResp, sweepAt, edits>>

\* ----------------------------------------------------------- specifications
\* Spec: two clients of one session, in two tabs of one device and both
\* connected to the relay; local edits and delivery over both channels.
LocalEdit ==
  /\ edits < MaxEdits
  /\ \E c \in Clients : \E ch \in EditChoices(config[c]) : updateConfig(c, ch[1], ch[2])
Delivery == \E l \in Links : Deliver(l)
TimePasses == Tick(DedupWindow, MaxTime)

Next ==
  \/ LocalEdit
  \/ Delivery
  \/ TimePasses

Spec == Init /\ [][Next]_vars

\* SpecLoad: the snapshot load of the fetchProjects effect and persistence,
\* racing with local edits and deliveries.
LoadEdit ==
  /\ edits < MaxLoadEdits
  /\ \E c \in Clients : \E ch \in EditChoices(config[c]) : updateConfig(c, ch[1], ch[2])
Persist == \E p \in puts : ServerPut(p)
StartLoad == \E c \in Clients : FetchStart(c)
ConfigRequest == \E c \in Clients : \E up \in BOOLEAN : ServerGetConfig(c, up)
ConfigLoaded == \E c \in Clients : ConfigReply(c)
MetaLoaded ==
  \E c \in Clients : \E o \in {"match", "nomatch", "notok", "throw"} : MetaReply(c, o)

NextLoad ==
  \/ LoadEdit
  \/ Delivery
  \/ Persist
  \/ StartLoad
  \/ ConfigRequest
  \/ ConfigLoaded
  \/ MetaLoaded

SpecLoad == Init /\ [][NextLoad]_vars

\* SpecDedup: client u1 handles events of every kind sent by the other
\* participants u2 and u3, at any time.
DocRed == createConfigFromVariant(defaultBaseModel)
DocBlue == applyLocalEdit(DocRed, "color", "blue")
Note1 == [id |-> "n1", attribute |-> "color", user |-> "Bob", text |-> "hi", timestamp |-> 100]

InputEvents ==
  { CursorMessage("u2", 20, 40), CursorMessage("u2", 60, 40),
    FocusMessage("u2", "color"), FocusMessage("u3", Null),
    ConfigMessage("u2", DocBlue), ConfigMessage("u3", DocRed),
    CommentMessage("u2", Note1),
    MetaMessage("u2", <<<<"title", "Demo">>, <<"baseModel", "Birch">>>>) }

Incoming ==
  /\ Len(hist["u1"]) < MaxHandled
  /\ \E raw \in InputEvents : Receive("u1", raw)
RefSync == SyncPeersRef("u1")
DedupTime == Tick(500, MaxDedupTime)

NextDedup ==
  \/ Incoming
  \/ RefSync
  \/ DedupTime

SpecDedup == Init /\ [][NextDedup]_vars

\* SpecBurst: participant u2 sweeps its cursor across the workspace, every
\* cursor event at a new position (0, 1, 2, ...), and the event of the first
\* position reaches u1 a second time (the copy of the other channel).
BurstSeen == Cardinality({hist["u1"][i].msg.x : i \in 1..Len(hist["u1"])})
BurstMove ==
  /\ BurstSeen < MaxBurst
  /\ peersRef["u1"] = peers["u1"]
  /\ Receive("u1", CursorMessage("u2", 2 * BurstSeen, 0))
BurstAgain ==
  /\ BurstSeen >= 1
  /\ Len(hist["u1"]) = BurstSeen
  /\ peersRef["u1"] = peers["u1"]
  /\ Receive("u1", CursorMessage("u2", 0, 0))
BurstTime == Tick(DedupWindow, MaxTime)

NextBurst ==
  \/ BurstMove
  \/ BurstAgain
  \/ RefSync
  \/ BurstTime

SpecBurst == Init /\ [][NextBurst]_vars

\* SpecPresence: cursor and focus events of u2 and u3 reach u1 while the
\* sweep intervals of the clients fire every 4 s.
PresenceEvents ==
  { CursorMessage("u2", 20, 40), FocusMessage("u2", "color"),
    CursorMessage("u3", 60, 40), FocusMessage("u3", Null) }

PresenceIncoming ==
  /\ Len(hist["u1"]) < MaxPresenceEvents
  /\ \E raw \in PresenceEvents : Receive("u1", raw)
Sweeping == \E c \in Clients : Sweep(c)
PresenceTime == Tick(1000, MaxPresenceTime)

NextPresence ==
  \/ PresenceIncoming
  \/ RefSync
  \/ Sweeping
  \/ PresenceTime

SpecPresence == Init /\ [][NextPresence]_vars

\* SpecColour: participants p01, p02, ... join the session one after another
\* and each sends a first cursor event, which both clients handle; client u2
\* may have opened the workspace only after p01 had left.
PeerIds ==
  << "p01", "p02", "p03", "p04", "p05", "p06", "p07", "p08", "p09", "p10",
     "p11", "p12", "p13", "p14", "p15", "p16", "p17", "p18", "p19", "p20",
     "p21", "p22", "p23", "p24" >>
PeerIndex(id) == CHOOSE k \in 1..Len(PeerIds) : PeerIds[k] = id
NextPeer(c) ==
  IF hist[c] = <<>> THEN 1 ELSE PeerIndex(Last(hist[c]).msg.userId) + 1
PeerArrives ==
  \E c \in Clients :
    /\ NextPeer(c) <= MaxPeers
    /\ Receive(c, CursorMessage(PeerIds[NextPeer(c)], 0, 0))
LateStart ==
  /\ hist["u2"] = <<>>
  /\ Receive("u2", CursorMessage(PeerIds[2], 0, 0))

NextColour ==
  \/ PeerArrives
  \/ LateStart
  \/ RefSync

SpecColour == Init /\ [][NextColour]_vars

\* SpecComment: participant u2 leaves notes n01, n02, ... on the colour, each
\* stamped later than the one before, and u1 handles their comment events;
\* one note may be stamped earlier than all the others (written on a device
\* whose clock is behind) and be on either attribute, and the
\* latest note may arrive again from participant u3, as it was or with
\* another text; u3 sends one event only.
CommentIds ==
  << "n01", "n02", "n03", "n04", "n05", "n06", "n07", "n08", "n09", "n10",
     "n11", "n12", "n13", "n14", "n15", "n16", "n17", "n18", "n19", "n20",
     "n21", "n22", "n23", "n24", "n25", "n26", "n27", "n28", "n29", "n30",
     "n31", "n32", "n33", "n34", "n35", "n36" >>
NoteBase == 1000
EarlyStamp == 500
Note(k, attribute, timestamp) ==
  [id |-> CommentIds[k], attribute |-> attribute, user |-> UserName("u2"),
   text |-> "note", timestamp |-> timestamp]
\* the notes of u2 that u1 handled
NotesOf(c) == {hist[c][i].msg.comment : i \in {j \in 1..Len(hist[c]) : hist[c][j].msg.userId = "u2"}}
NextNote(c) == Cardinality(NotesOf(c)) + 1
NoteArrives ==
  /\ NextNote("u1") <= MaxComments
  /\ Receive("u1", CommentMessage("u2", Note(NextNote("u1"), "color", NoteBase + NextNote("u1"))))
NoteStampedEarly ==
  /\ NextNote("u1") <= MaxComments
  /\ \A n \in NotesOf("u1") : n.timestamp # EarlyStamp
  /\ \E attribute \in {"color", "wheels"} :
       Receive("u1", CommentMessage("u2", Note(NextNote("u1"), attribute, EarlyStamp)))
NoteAgain ==
  /\ \A i \in 1..Len(hist["u1"]) : hist["u1"][i].msg.userId # "u3"
  /\ \E n \in NotesOf("u1") : \E text \in {"note", "edited"} :
       /\ n.id = CommentIds[NextNote("u1") - 1]
       /\ Receive("u1", CommentMessage("u3", [n EXCEPT !.text = text]))

NextComment ==
  \/ NoteArrives
  \/ NoteStampedEarly
  \/ NoteAgain

SpecComment == Init /\ [][NextComment]_vars

\* SpecEcho: events carrying u1's own id (an echo of what u1 sent, of every
\* kind) reach u1's handleIncoming between events of participant u2.
OwnEvents ==
  { CursorMessage("u1", 20, 40), FocusMessage("u1", "color"),
    ConfigMessage("u1", DocBlue),
    CommentMessage("u1", [Note1 EXCEPT !.user = UserName("u1")]),
    MetaMessage("u1", <<<<"title", "Mine">>>>) }
OtherEvents ==
  { CursorMessage("u2", 20, 40), ConfigMessage("u2", DocBlue), CommentMessage("u2", Note1) }
OwnEcho == \E raw \in OwnEvents : Receive("u1", raw)
OtherIncoming ==
  /\ Len(hist["u1"]) < MaxEchoHandled
  /\ \E raw \in OtherEvents : Receive("u1", raw)
EchoTime == Tick(500, MaxEchoTime)

NextEcho ==
  \/ OwnEcho
  \/ OtherIncoming
  \/ RefSync
  \/ EchoTime

SpecEcho == Init /\ [][NextEcho]_vars

\* ------------------------------------------------------------- the relay
\* socket.handshake.query.projectId: the values of the projectId parameter,
\* a string when the parameter is given once, undefined when it is absent,
\* an array when it is repeated
QueryValues == {<<>>, <<"p1">>, <<"p2">>, <<"p1", "p2">>}
\* typeof projectId === "string"
IsString(projectId) == Len(projectId) = 1
\* the connections the relay holds
Connected == DOMAIN handshake

\* io.on("connection"): socket.join(projectId) when projectId is a string
Connection(s, projectId) ==
  /\ s \notin Connected
  /\ handshake' = [t \in Connected \cup {s} |-> IF t = s THEN projectId ELSE handshake[t]]
  /\ rooms' = IF IsString(projectId)
              THEN [rooms EXCEPT ![projectId[1]] = @ \cup {s}]
              ELSE rooms
  /\ UNCHANGED <<received, sent>>

\* a connection that closes and stays in the rooms it was in
DisconnectKeepRooms(s) ==
  /\ s \in Connected
  /\ handshake' = [t \in Connected \ {s} |-> handshake[t]]
  /\ UNCHANGED <<rooms, received, sent>>

\* a connection closes: it leaves the relay and every room it was in
Disconnect(s) ==
  /\ s \in Connected
  /\ handshake' = [t \in Connected \ {s} |-> handshake[t]]
  /\ rooms' = [r \in ProjectIds |-> rooms[r] \ {s}]
  /\ UNCHANGED <<received, sent>>

\* io.to(room): every connection of the room, the sender among them
ioTo(s, room) == rooms[room]
\* socket.to(room): the connections of the room except socket s
socketTo(s, room) == rooms[room] \ {s}
\* socket.broadcast: every connection except socket s
socketBroadcast(s) == Connected \ {s}

\* socket.on("collab-message", message) on connection s
CollabMessage(s, message) ==
  LET projectId == handshake[s]
      targets == IF IsString(projectId) THEN socketTo(s, projectId[1]) ELSE socketBroadcast(s)
  IN /\ s \in Connected
     /\ received' = [t \in Sockets |->
          IF t \in targets THEN Append(received[t], jsonClone(message)) ELSE received[t]]
     /\ sent' = Append(sent, [from |-> s, message |-> message])
     /\ UNCHANGED <<handshake, rooms>>

\* SpecRelay: connections open with a projectId given once, not at all or
\* twice, send the wire form of the clients' events and close.
RelayEvents ==
  { OnWire("io", m) : m \in { CursorMessage("u2", 20, 40),
                              MetaMessage("u1", <<<<"title", "Mine">>, <<"description", Undef>>>>) } }
Connects ==
  /\ UNCHANGED <<saveVars, cursorVars, commentVars, socketVars, now, clientVars, peersRef, net, store, puts, fetchPc, fetchResp, sweepAt,
                 hist, lastApplied, edits, echoes>>
  /\ \E s \in Sockets : \E projectId \in QueryValues : Connection(s, projectId)
Disconnects ==
  /\ UNCHANGED <<saveVars, cursorVars, commentVars, socketVars, now, clientVars, peersRef, net, store, puts, fetchPc, fetchResp, sweepAt,
                 hist, lastApplied, edits, echoes>>
  /\ \E s \in Sockets : Disconnect(s)
Sends ==
  /\ Len(sent) < MaxSent
  /\ UNCHANGED <<saveVars, cursorVars, commentVars, socketVars, now, clientVars, peersRef, net, store, puts, fetchPc, fetchResp, sweepAt,
                 hist, lastApplied, edits, echoes>>
  /\ \E s \in Connected : \E message \in RelayEvents : CollabMessage(s, message)

NextRelay ==
  \/ Connects
  \/ Disconnects
  \/ Sends

SpecRelay == Init /\ [][NextRelay]_vars

\* SpecLeave: the tabs of one session connect to the relay with the session's
\* projectId, one sends cursor events, and they close, while client u1 handles u2's
\* cursor event and the sweep intervals fire.
LeaveEvent == CursorMessage("u2", 20, 40)
LeaveRest ==
  <<saveVars, cursorVars, commentVars, socketVars, now, clientVars, peersRef, net, store, puts, fetchPc, fetchResp, sweepAt,
    hist, lastApplied, edits, echoes>>
LeaveJoins == UNCHANGED LeaveRest /\ \E s \in Sockets : Connection(s, <<"p1">>)
LeaveCloses == UNCHANGED LeaveRest /\ \E s \in Sockets : Disconnect(s)
LeaveSends ==
  /\ Len(sent) < MaxLeaveSent
  /\ UNCHANGED LeaveRest
  /\ "s1" \in Connected
  /\ CollabMessage("s1", OnWire("io", LeaveEvent))
LeaveIncoming ==
  /\ Len(hist["u1"]) < MaxLeaveEvents
  /\ Receive("u1", OnWire("io", LeaveEvent))
LeaveTime == Tick(SweepEvery, MaxLeaveTime)

NextLeave ==
  \/ LeaveJoins
  \/ LeaveCloses
  \/ LeaveSends
  \/ LeaveIncoming
  \/ Sweeping
  \/ LeaveTime

SpecLeave == Init /\ [][NextLeave]_vars

\* SpecMalformed: payloads that lack a field reach u1's handleIncoming between
\* well-formed events of u2.
MalformedEvents ==
  { Without(CursorMessage("u2", 20, 40), "x"),
    Without(CursorMessage("u2", 20, 40), "y"),
    Without(CursorMessage("u2", 20, 40), "username"),
    Without(FocusMessage("u2", "color"), "username"),
    Without(ConfigMessage("u2", DocBlue), "config"),
    Without(ConfigMessage("u2", DocBlue), "username"),
    Without(CommentMessage("u2", Note1), "comment"),
    Without(MetaMessage("u2", <<<<"title", "Mine">>>>), "project"),
    Without(CursorMessage("u2", 20, 40), "kind"),
    Without(CursorMessage("u2", 20, 40), "userId") }
WellFormedEvents == { CursorMessage("u2", 20, 40), ConfigMessage("u2", DocRed) }
MalformedIncoming ==
  /\ Len(hist["u1"]) < MaxMalformed
  /\ \E raw \in MalformedEvents \cup WellFormedEvents : Receive("u1", raw)
MalformedTime == Tick(DedupWindow, MaxMalformedTime)

NextMalformed ==
  \/ MalformedIncoming
  \/ RefSync
  \/ MalformedTime

SpecMalformed == Init /\ [][NextMalformed]_vars

\* SpecSave: local edits and their persistence, with every outcome of the
\* write: stored, answered 503 or 400, or the request lost; a remote config
\* event is handled meanwhile.
SaveEdit ==
  /\ edits < MaxSaveEdits
  /\ \E ch \in EditChoices(config["u1"]) : updateConfig("u1", ch[1], ch[2])
SaveUnavailable == \E p \in puts : ServerPutUnavailable(p)
SaveError == \E p \in puts : ServerPutError(p)
SaveLost == \E p \in puts : PutRejected(p)
SaveResolved == \E r \in putReplies : PutResolved(r)
SaveTimers == \E c \in Clients : SaveTimer(c)
SaveRemote ==
  /\ Len(hist["u1"]) < MaxSaveEdits
  /\ Receive("u1", ConfigMessage("u2", DocBlue))

NextSave ==
  \/ SaveEdit
  \/ Persist
  \/ SaveUnavailable
  \/ SaveError
  \/ SaveLost
  \/ SaveResolved
  \/ SaveTimers
  \/ SaveRemote

SpecSave == Init /\ [][NextSave]_vars

\* SpecSaveLive: SpecSave where every request is answered or lost, every
\* response resumes persistConfig and every timer fires; the user need not
\* edit again.
SaveSettles == Persist \/ SaveUnavailable \/ SaveError \/ SaveLost
SpecSaveLive ==
  /\ SpecSave
  /\ WF_vars(SaveSettles)
  /\ WF_vars(SaveResolved)
  /\ WF_vars(SaveTimers)

\* SpecCursor: the pointer moves over the canvas of either client; between
\* two moves no time, 30 ms, 31 ms or a sum of these passes.
MouseMoves ==
  \E c \in Clients :
    /\ Len(moves[c]) < MaxMoves
    /\ handleMouseMove(c, 20, 40)
CursorTime == \E d \in {ThrottleMs, ThrottleMs + 1} : Tick(d, MaxCursorTime)

NextCursor ==
  \/ MouseMoves
  \/ CursorTime

SpecCursor == Init /\ [][NextCursor]_vars

\* SpecDegraded: one of two tabs of a device edits while its socket loses
\* the relay (at once: the connection is never established), gets it back,
\* or loses single events on the way.
DegradedEdit ==
  /\ edits < MaxDegradedEdits
  /\ \E ch \in EditChoices(config["u1"]) : updateConfig("u1", ch[1], ch[2])
RelayLost == SocketCloses("u1")
\* the focus events of "connect" listeners that are in flight or were handled
ConnectEvents ==
  LET inFlight(l) == Len(SelectSeq(net[l], LAMBDA e : e.msg.kind = "focus"))
      handled(c) == Len(SelectSeq(hist[c], LAMBDA h : h.msg.kind = "focus"))
      total[ls \in SUBSET Links] ==
        IF ls = {} THEN 0 ELSE LET l == CHOOSE k \in ls : TRUE IN inFlight(l) + total[ls \ {l}]
  IN total[Links] + handled("u1") + handled("u2")
RelayBack ==
  /\ ConnectEvents < MaxReconnects
  /\ SocketOpens("u1")
SendFails == \E l \in Links : SocketLoses(l)

NextDegraded ==
  \/ DegradedEdit
  \/ RelayLost
  \/ RelayBack
  \/ SendFails
  \/ Delivery

SpecDegraded == Init /\ [][NextDegraded]_vars

\* SpecStore: the config route is sent PUT requests with documents of the
\* catalogue, of another brand and price, and of a model the catalogue does
\* not know, while the clients load the document with GET.
StoreDocs ==
  { DocRed, DocBlue,
    createConfigFromVariant("Birch"),
    [DocBlue EXCEPT !.brand = "Custom", !.basePrice = 150],
    [model |-> "Zed", brand |-> "Custom", basePrice |-> 150,
     selections |-> <<<<"color", "blue">>>>] }
\* a PUT request with document d is sent to the route
StoreRequest(d) ==
  /\ puts = {}
  /\ Cardinality(putReplies) < MaxStorePuts
  /\ puts' = {[n |-> Cardinality(putReplies), from |-> "u1", doc |-> d]}
  /\ UNCHANGED <<relayVars, cursorVars, commentVars, socketVars, saveVars, now, clientVars, peersRef, net,
                 store, fetchPc, fetchResp, sweepAt, hist, lastApplied, edits, echoes>>
StoreRequests == \E d \in StoreDocs : StoreRequest(d)

NextStore ==
  \/ StoreRequests
  \/ Persist
  \/ SaveUnavailable
  \/ StartLoad
  \/ ConfigRequest
  \/ ConfigLoaded

SpecStore == Init /\ [][NextStore]_vars

\* SpecEvict: client u1 handles cursor and focus events of u2 at any second
\* of the first 20 s while the sweep intervals fire every 4 s.
EvictEvents == { CursorMessage("u2", 20, 40), FocusMessage("u2", "color") }
EvictIncoming ==
  /\ Len(hist["u1"]) < MaxEvictEvents
  /\ \E raw \in EvictEvents : Receive("u1", raw)
EvictTime == Tick(1000, MaxEvictTime)

NextEvict ==
  \/ EvictIncoming
  \/ Sweeping
  \/ EvictTime

SpecEvict == Init /\ [][NextEvict]_vars

\* SpecTeardown: the two tabs edit and handle each other's config events
\* while tab u1 loads the project; the workspace of u1 may be left at any
\* moment: before or after the listing of its fetchProjects effect arrives,
\* and with events in flight to it and from it.
TeardownEdit ==
  /\ edits < MaxTeardownEdits
  /\ \E c \in Clients : \E ch \in EditChoices(config[c]) : updateConfig(c, ch[1], ch[2])
Leaves == Unmount("u1")
TeardownLoad == FetchStart("u1") \/ ServerGetConfig("u1", TRUE) \/ ConfigReply("u1")
TeardownMeta == MetaReply("u1", "match")

NextTeardown ==
  \/ TeardownEdit
  \/ Leaves
  \/ TeardownLoad
  \/ TeardownMeta
  \/ Delivery

SpecTeardown == Init /\ [][NextTeardown]_vars

\* SpecSingle: tab u1 alone edits; its config events reach tab u2 over the
\* BroadcastChannel in the order sent, and the copies sent over the socket
\* are lost.
SingleEdit ==
  /\ edits < MaxSingleEdits
  /\ \E ch \in EditChoices(config["u1"]) : updateConfig("u1", ch[1], ch[2])
SingleDelivery == Deliver(<<"bc", "u1", "u2">>)
SingleLost == SocketLoses(<<"io", "u1", "u2">>)
SingleTime == Tick(DedupWindow, MaxSingleTime)

NextSingle ==
  \/ SingleEdit
  \/ SingleDelivery
  \/ SingleLost
  \/ SingleTime

SpecSingle == Init /\ [][NextSingle]_vars

\* SpecActivity: the three callers of pushActivity in client u1.  Before its
\* first edit u1 may apply a document of u2; then u1 sets the colour again
\* and again, to the other option or (a bounded number of times) to the one
\* that is selected already, leaves one note on the colour, and the time may
\* pass by the window of the feed.  Nothing is delivered and nothing is saved.
ActivityRepeats ==
  Cardinality({p \in puts : \/ p.n = 1 /\ p.doc = DocRed
                            \/ \E q \in puts : q.n = p.n - 1 /\ q.doc = p.doc})
ActivityEdit ==
  /\ edits < MaxActivityEdits
  /\ \E value \in {"red", "blue"} :
       /\ Get(config["u1"].selections, "color") = value => ActivityRepeats < MaxActivityRepeats
       /\ updateConfig("u1", "color", value)
ActivityNote ==
  /\ notes["u1"] = 0
  /\ addComment("u1", "color")
ActivityRemote ==
  /\ edits = 0
  /\ hist["u1"] = <<>>
  /\ Receive("u1", ConfigMessage("u2", DocBlue))
ActivityTime == Tick(ActivityWindow, MaxActivityTime)

NextActivity ==
  \/ ActivityEdit
  \/ ActivityNote
  \/ ActivityRemote
  \/ ActivityTime

SpecActivity == Init /\ [][NextActivity]_vars

\* SpecNotes: both participants leave notes on the colour; the comment
\* events are delivered over both channels and the POST requests reach a
\* cache that is available, in any order.
NoteAdded ==
  \E c \in Clients :
    /\ notes[c] < MaxNotes
    /\ addComment(c, "color")
NoteStored == \E p \in posts : ServerPostComments(p)

NextNotes ==
  \/ NoteAdded
  \/ Delivery
  \/ NoteStored

SpecNotes == Init /\ [][NextNotes]_vars

\* SpecPairs: client u1 handles events of u2 that come in pairs of one
\* fingerprint and two payloads: cursor positions 9.5 and 10 (kept in
\* halves), project metas of two titles, documents of two models with the
\* same selections, comments of one id and two texts; and events of other
\* fingerprints: a third cursor position, two focus events.
PairEvents ==
  { CursorMessage("u2", 19, 40), CursorMessage("u2", 20, 40),
    MetaMessage("u2", <<<<"title", "Demo">>>>), MetaMessage("u2", <<<<"title", "Mine">>>>),
    ConfigMessage("u2", DocBlue), ConfigMessage("u2", [DocBlue EXCEPT !.model = "Birch"]),
    CommentMessage("u2", Note1), CommentMessage("u2", [Note1 EXCEPT !.text = "ho"]),
    CursorMessage("u2", 60, 40), FocusMessage("u2", "color"), FocusMessage("u2", Null) }
PairIncoming ==
  /\ Len(hist["u1"]) < MaxPairHandled
  /\ \E raw \in PairEvents : Receive("u1", raw)
PairTime == Tick(500, MaxPairTime)

NextPairs ==
  \/ PairIncoming
  \/ RefSync
  \/ PairTime

SpecPairs == Init /\ [][NextPairs]_vars

\* SpecUnknown: client u1 handles events of kinds the workspace does not
\* know, among events of the kinds it knows.
UnknownEvents ==
  { BlankMessage("typing", "u2"), BlankMessage("typing", "u3"), BlankMessage("ping", "u3") }
UnknownIncoming ==
  /\ Len(hist["u1"]) < MaxMalformed
  /\ \E raw \in UnknownEvents \cup WellFormedEvents : Receive("u1", raw)

NextUnknown ==
  \/ UnknownIncoming
  \/ RefSync
  \/ MalformedTime

SpecUnknown == Init /\ [][NextUnknown]_vars

\* ------------------------------------------------------------------ claims
\* this step is client c handling a remote event (accepted or dropped)
Handled(c) == hist'[c] # hist[c]
\* this step is client c accepting a remote event
Accepted(c) == Handled(c) /\ Last(hist'[c]).accepted
\* the event client c handles in this step
Event(c) == Last(hist'[c]).msg
\* no event is in flight
Quiescent == \A l \in Links : net[l] = <<>>
SameKeys(a, b) == KeySet(a) = KeySet(b) /\ Len(a) = Len(b)

\* C1 (as claimed): once every published config event has been delivered to
\* and handled by every other participant, all participants hold the same
\* configuration document.
C1_Convergence ==
  (edits > 0 /\ Quiescent) => \A c \in Clients, d \in Clients : config[c] = config[d]

\* this step delivers, on link l, the config event of a local edit and the
\* receiver accepts it
AcceptsEdit(l) ==
  /\ net[l] # <<>>
  /\ net'[l] = Tail(net[l])
  /\ Head(net[l]).attribute # ""
  /\ Accepted(l[3])

\* C4 (as claimed): after B applies the config event of A's edit of one
\* attribute, B's selections are B's prior selections with that attribute set
\* to the new value, for every prior document of B.
C4_OthersKeptFromPrior ==
  [][\A l \in Links : AcceptsEdit(l) =>
       LET a == Head(net[l]).attribute
           doc == Head(net[l]).msg.config
       IN config'[l[3]].selections =
            SpreadSet(config[l[3]].selections, a, Get(doc.selections, a))]_vars

\* C4 (amended): after B applies the config event of A's edit of one
\* attribute, that attribute has the new value in B's document and every
\* other attribute has its value in A's document after the edit; it is
\* unchanged from B's prior document where B's prior document agreed with
\* A's document on it.
C4_OthersFromSender ==
  [][\A l \in Links : AcceptsEdit(l) =>
       LET a == Head(net[l]).attribute
           doc == Head(net[l]).msg.config
           prior == config[l[3]].selections
           after == config'[l[3]].selections
       IN /\ SameKeys(after, doc.selections)
          /\ \A k \in KeySet(after) :
               /\ Get(after, k) = Get(doc.selections, k)
               /\ (k # a /\ Get(prior, k) = Get(doc.selections, k)) => Get(after, k) = Get(prior, k)]_vars

\* C4 witness: B edited one attribute, then accepted the config event of A's
\* edit of the other one; both of B's attributes now differ from B's prior
\* document.
C4_Witness ==
  \E b \in Clients :
    /\ Len(hist[b]) = 1 /\ hist[b][1].accepted /\ hist[b][1].msg.kind = "config"
    /\ config[b] = hist[b][1].msg.config
    /\ \E p \in puts :
         /\ p.from = b
         /\ \A k \in KeySet(config[b].selections) :
              Get(p.doc.selections, k) # Get(config[b].selections, k)

\* the attributes the document's model defines
ModelAttributes(doc) == KeySet(getBaseModel(doc.model).options)

\* C5: in every reachable state, the keys of the document's selections are
\* exactly the attributes of the document's model, each once.
C5_SelectionsMatchModel ==
  \A c \in Clients :
    /\ KeySet(config[c].selections) = ModelAttributes(config[c])
    /\ Len(config[c].selections) = Cardinality(ModelAttributes(config[c]))

\* C5 witness: a client that made a local edit and later accepted a remote
\* config event holds a document other than the initial one.
C5_Witness ==
  \E c \in Clients :
    /\ \E p \in puts : p.from = c
    /\ hist[c] # <<>> /\ Last(hist[c]).accepted /\ Last(hist[c]).msg.kind = "config"
    /\ config[c] = Last(hist[c]).msg.config
    /\ config[c] # createConfigFromVariant(defaultBaseModel)

\* C6 (as claimed): once a local edit or an accepted remote config event has
\* been applied, the document is the one the latest of them produced; the
\* snapshot load does not replace it.
C6_LastAppliedStays ==
  \A c \in Clients : lastApplied[c] # NoConfig => config[c] = lastApplied[c]

\* C7: right after a client accepts a remote config event, its document
\* equals the event's document in every field.
C7_LastWriteWins ==
  [][\A c \in Clients : (Accepted(c) /\ Event(c).kind = "config") =>
       config'[c] = Event(c).config]_vars

\* C7 witness: a client that had set its own, different document accepted a
\* remote config event and now holds the event's document.
C7_Witness ==
  \E c \in Clients :
    /\ hist[c] # <<>> /\ Last(hist[c]).accepted /\ Last(hist[c]).msg.kind = "config"
    /\ config[c] = Last(hist[c]).msg.config
    /\ lastApplied[c] = config[c]
    /\ \E p \in puts : p.from = c /\ p.doc # config[c]

\* this step is a local edit
Edited == edits' = edits + 1

\* C8: a local edit of (attribute, value) sets that selection, keeps every
\* other selection and the model, brand and basePrice, and publishes to every
\* other client, once per channel, one config event carrying the whole
\* updated document.
C8_LocalEdit ==
  [][Edited =>
       \E c \in Clients : \E ch \in EditChoices(config[c]) :
         /\ Get(config'[c].selections, ch[1]) = ch[2]
         /\ SameKeys(config'[c].selections, config[c].selections)
         /\ \A k \in KeySet(config[c].selections) \ {ch[1]} :
              Get(config'[c].selections, k) = Get(config[c].selections, k)
         /\ config'[c].model = config[c].model
         /\ config'[c].brand = config[c].brand
         /\ config'[c].basePrice = config[c].basePrice
         /\ \A d \in Clients \ {c} : config'[d] = config[d]
         /\ \A l \in Links :
              IF l[2] = c
              THEN /\ Len(net'[l]) = Len(net[l]) + 1
                   /\ SubSeq(net'[l], 1, Len(net[l])) = net[l]
                   /\ Last(net'[l]).msg.kind = "config"
                   /\ Last(net'[l]).msg.userId = c
                   /\ Last(net'[l]).msg.config = config'[c]
              ELSE net'[l] = net[l]]_vars

\* C8 witness: a client whose document differs from the initial one has its
\* config event, carrying that document, in flight.
C8_Witness ==
  \E l \in Links :
    /\ net[l] # <<>>
    /\ Last(net[l]).msg.kind = "config"
    /\ Last(net[l]).msg.config = config[l[2]]
    /\ config[l[2]] # createConfigFromVariant(defaultBaseModel)
    /\ lastApplied[l[2]] = config[l[2]]

\* C10 (as claimed): every accepted remote event, of any kind, from
\* participant p leaves p in the registry with lastSeen at the current time.
C10_EveryEventTouchesPeer ==
  [][\A c \in Clients : Accepted(c) =>
       /\ Event(c).userId \in DOMAIN peers'[c]
       /\ peers'[c][Event(c).userId].lastSeen = now]_vars

\* the fingerprint of the i-th event client c handled
KeyAt(c, i) == messageKey(hist[c][i].msg)
\* the events client c accepted after the i-th one it handled
AcceptedAfter(c, i) == Cardinality({j \in (i + 1)..Len(hist[c]) : hist[c][j].accepted})
\* this step leaves the peer, document, comment, project-meta and activity
\* state of client c as it was
Unapplied(c) ==
  /\ peers'[c] = peers[c]
  /\ config'[c] = config[c]
  /\ comments'[c] = comments[c]
  /\ projectMeta'[c] = projectMeta[c]
  /\ activity'[c] = activity[c]

\* C2 (as claimed): an event handled less than 1.5 s after an event of the
\* same fingerprint changes no peer, document, comment, project-meta or
\* activity state, however many events were handled in between.
C2_DropsWithinWindow ==
  [][\A c \in Clients : Handled(c) =>
       ((\E i \in 1..Len(hist[c]) :
            KeyAt(c, i) = messageKey(Event(c)) /\ now - hist[c][i].at < DedupWindow)
        => Unapplied(c))]_vars

\* C2 (amended): an event handled less than 1.5 s after an accepted event of
\* the same fingerprint is dropped and changes no peer, document, comment,
\* project-meta or activity state, provided fewer than 32 other events were
\* accepted in between (the cache keeps the 32 newest fingerprints).
C2_DropsWhileCached ==
  [][\A c \in Clients : Handled(c) =>
       ((\E i \in 1..Len(hist[c]) :
            /\ KeyAt(c, i) = messageKey(Event(c))
            /\ hist[c][i].accepted
            /\ now - hist[c][i].at < DedupWindow
            /\ AcceptedAfter(c, i) < CacheMax)
        => (~Accepted(c) /\ Unapplied(c) /\ recentMessages'[c] = recentMessages[c]))]_vars

\* C2 witness: the cursor event of the first position was handled again,
\* within the window and after 31 other accepted events, and was dropped:
\* the peer is not back at the first position.
C2_Witness ==
  /\ Len(hist["u1"]) = CacheMax + 1
  /\ ~Last(hist["u1"]).accepted
  /\ KeyAt("u1", 1) = messageKey(Last(hist["u1"]).msg)
  /\ hist["u1"][1].accepted
  /\ AcceptedAfter("u1", 1) = CacheMax - 1
  /\ peers["u1"]["u2"].x # Last(hist["u1"]).msg.x

\* C3 (as claimed): any two events of the same fingerprint handled 1.5 s or
\* more apart are both accepted, whatever was handled in between.
C3_AnyTwoApartAccepted ==
  \A c \in Clients : \A i \in 1..Len(hist[c]) : \A j \in 1..Len(hist[c]) :
    (i < j /\ KeyAt(c, i) = KeyAt(c, j) /\ hist[c][j].at - hist[c][i].at >= DedupWindow)
      => (hist[c][i].accepted /\ hist[c][j].accepted)

\* the effect of the event client c accepts in this step, by kind
Applied(c) ==
  LET m == Event(c) IN
  /\ recentMessages'[c][1] = [key |-> messageKey(m), seen |-> now]
  /\ m.kind = "cursor" =>
       /\ m.userId \in DOMAIN peers'[c]
       /\ peers'[c][m.userId].x = m.x /\ peers'[c][m.userId].y = m.y
       /\ peers'[c][m.userId].lastSeen = now
  /\ m.kind = "focus" =>
       /\ m.userId \in DOMAIN peers'[c]
       /\ peers'[c][m.userId].focus = m.field
       /\ peers'[c][m.userId].lastSeen = now
  /\ m.kind = "config" => config'[c] = m.config
  /\ m.kind = "comment" =>
       \E i \in 1..Len(Get(comments'[c], m.comment.attribute)) :
         Get(comments'[c], m.comment.attribute)[i] = m.comment
  /\ m.kind = "project-meta" =>
       \A k \in KeySet(m.project) : projectMeta'[c][k] = Get(m.project, k)

\* C3 (amended): an event handled 1.5 s or more after the latest accepted
\* event of the same fingerprint (or with no such event before it) is
\* accepted and applied, whatever was handled in between.
C3_ApartFromLastAccepted ==
  [][\A c \in Clients : Handled(c) =>
       ((\A i \in 1..Len(hist[c]) :
            (KeyAt(c, i) = messageKey(Event(c)) /\ hist[c][i].accepted)
              => now - hist[c][i].at >= DedupWindow)
        => (Accepted(c) /\ Applied(c)))]_vars

\* C3 witness: two events of one fingerprint were accepted exactly 1.5 s
\* apart, with another event handled in between.
C3_Witness ==
  /\ Len(hist["u1"]) = 3
  /\ KeyAt("u1", 1) = KeyAt("u1", 3)
  /\ KeyAt("u1", 2) # KeyAt("u1", 1)
  /\ hist["u1"][1].accepted /\ hist["u1"][3].accepted
  /\ hist["u1"][3].at - hist["u1"][1].at = DedupWindow

\* this step is the sweep of client c
Swept(c) == sweepAt'[c] # sweepAt[c]

\* C9: a sweep removes every peer last seen more than 12 s before it, keeps
\* every peer last seen at most 11 s before it, adds no peer and changes no
\* field of a peer it keeps.
C9_PresenceTTL ==
  [][\A c \in Clients : Swept(c) =>
       /\ DOMAIN peers'[c] \subseteq DOMAIN peers[c]
       /\ \A p \in DOMAIN peers[c] :
            /\ now - peers[c][p].lastSeen > 12000 => p \notin DOMAIN peers'[c]
            /\ now - peers[c][p].lastSeen <= 11000 => p \in DOMAIN peers'[c]
            /\ p \in DOMAIN peers'[c] => peers'[c][p] = peers[c][p]]_vars

\* C9 witness: the sweep that just ran kept a peer last seen 11 s before it
\* and removed a peer whose last event was accepted 13 s before it (and that
\* the sweep before had kept).
C9_Witness ==
  /\ sweepAt["u1"] = now + SweepEvery
  /\ \E q \in DOMAIN peers["u1"] : now - peers["u1"][q].lastSeen = 11000
  /\ \E i \in 1..Len(hist["u1"]) :
       /\ hist["u1"][i].accepted
       /\ hist["u1"][i].msg.userId \notin DOMAIN peers["u1"]
       /\ now - hist["u1"][i].at = 13000
       /\ \A j \in (i + 1)..Len(hist["u1"]) : hist["u1"][j].msg.userId # hist["u1"][i].msg.userId

\* C11 (as claimed): an accepted cursor event for a peer already in the
\* registry leaves the peer's focused field as it was, and an accepted focus
\* event leaves its x and y as they were, whether or not the peersRef
\* snapshot has caught up with the registry.
C11_UnspecifiedKept ==
  [][\A c \in Clients :
       (Accepted(c) /\ Event(c).userId \in DOMAIN peers[c]) =>
         LET p == Event(c).userId IN
         /\ Event(c).kind = "cursor" => peers'[c][p].focus = peers[c][p].focus
         /\ Event(c).kind = "focus" =>
              (peers'[c][p].x = peers[c][p].x /\ peers'[c][p].y = peers[c][p].y)]_vars

\* C12: a colour once registered for an id stays registered for it,
\* getColorForId returns it on every later call, and every peer in the
\* registry shows the colour registered for its id, also when the peer was
\* evicted by a sweep and re-created by a later event.
C12_ColourStable ==
  [][\A c \in Clients :
       /\ \A id \in DOMAIN colorRegistry[c] :
            /\ id \in DOMAIN colorRegistry'[c]
            /\ colorRegistry'[c][id] = colorRegistry[c][id]
            /\ getColorForId(colorRegistry'[c], id) = colorRegistry[c][id]
       /\ \A p \in DOMAIN peers'[c] :
            /\ p \in DOMAIN colorRegistry'[c]
            /\ peers'[c][p].color = colorRegistry'[c][p]]_vars

\* C12 witness: a peer whose event had been accepted was evicted by a sweep
\* and is in the registry again after a later event, with the colour
\* registered for it.
C12_Witness ==
  \E i \in 1..Len(hist["u1"]) : \E j \in (i + 1)..Len(hist["u1"]) :
    LET p == hist["u1"][i].msg.userId IN
    /\ hist["u1"][i].accepted /\ hist["u1"][j].accepted
    /\ hist["u1"][j].msg.userId = p
    /\ \A k \in (i + 1)..(j - 1) : hist["u1"][k].msg.userId # p
    /\ \E n \in 1..(now \div SweepEvery) :
         /\ hist["u1"][i].at + StaleAfter <= n * SweepEvery
         /\ n * SweepEvery < hist["u1"][j].at
    /\ p \in DOMAIN peers["u1"]
    /\ peers["u1"][p].lastSeen = hist["u1"][j].at
    /\ peers["u1"][p].color = colorRegistry["u1"][p]

\* the ids of client c's registry that hold a palette colour
FromPalette(c) == {id \in DOMAIN colorRegistry[c] : colorRegistry[c][id].hue = -1}

\* C13: any two distinct ids of one client's registry whose colours came
\* from the palette, the client's own id included, have different colours.
C13_PaletteColoursDistinct ==
  \A c \in Clients : \A a \in FromPalette(c) : \A b \in FromPalette(c) :
    a # b => colorRegistry[c][a] # colorRegistry[c][b]

\* C13 witness: the client itself and so many peers are registered that
\* every colour of the palette is in use, and a further id holds a hue.
C13_Witness ==
  /\ "u1" \in FromPalette("u1")
  /\ {colorRegistry["u1"][id].hex : id \in FromPalette("u1")}
       = {COLOR_PALETTE[i] : i \in 1..Len(COLOR_PALETTE)}
  /\ DOMAIN colorRegistry["u1"] # FromPalette("u1")

\* the first event of participant id that client c handled
FirstAt(c, id) ==
  CHOOSE i \in 1..Len(hist[c]) :
    /\ hist[c][i].msg.userId = id
    /\ \A j \in 1..(i - 1) : hist[c][j].msg.userId # id
\* the position of id among the distinct ids client c requested a colour
\* for: its own id first, then the peers in the order of their first event
ColourRank(c, id) ==
  IF id = c THEN 1
  ELSE 1 + Cardinality({hist[c][j].msg.userId : j \in 1..FirstAt(c, id)})

\* C14 (as claimed): the k-th distinct id a colour is requested for holds
\* the k-th entry of the palette for k up to 20, and a hue from the 21st on.
C14_KthIdGetsKthEntry ==
  \A c \in Clients : \A id \in DOMAIN colorRegistry[c] :
    IF ColourRank(c, id) <= Len(COLOR_PALETTE)
    THEN colorRegistry[c][id] = PaletteColor(COLOR_PALETTE[ColourRank(c, id)])
    ELSE colorRegistry[c][id].hue # -1

\* C15 (as claimed): the fallback colour of an id is a function of the id
\* alone: two clients that both assigned a hue to one id, after different
\* ids had been registered before it, assigned the same hue.
C15_FallbackOfIdAlone ==
  \A c \in Clients : \A d \in Clients :
    \A id \in DOMAIN colorRegistry[c] \cap DOMAIN colorRegistry[d] :
      (colorRegistry[c][id].hue # -1 /\ colorRegistry[d][id].hue # -1)
        => colorRegistry[c][id] = colorRegistry[d][id]

\* the thread of an attribute in a comments mapping (empty when absent)
Thread(threads, attribute) ==
  IF HasKey(threads, attribute) THEN Get(threads, attribute) ELSE <<>>
IdsOf(thread) == {thread[i].id : i \in 1..Len(thread)}
\* this step is client c accepting a comment event
AcceptedComment(c) == Accepted(c) /\ Event(c).kind = "comment"

\* C16: applying a comment a second time to the threads it was just applied
\* to changes no thread, so the thread of its attribute keeps its length and
\* its comment ids, whatever the thread was before.
C16_MergeIdempotent ==
  [][\A c \in Clients : AcceptedComment(c) =>
       /\ comments'[c] = upsertComment(comments[c], Event(c).comment)
       /\ upsertComment(comments'[c], Event(c).comment) = comments'[c]]_vars

\* C16 witness: the same comment was accepted twice (from two senders) and
\* the full thread of its attribute holds it once.
C16_Witness ==
  \E i \in 1..Len(hist["u1"]) : \E j \in (i + 1)..Len(hist["u1"]) :
    LET n == hist["u1"][i].msg.comment
        thread == Thread(comments["u1"], n.attribute) IN
    /\ hist["u1"][i].accepted /\ hist["u1"][j].accepted
    /\ hist["u1"][i].msg.kind = "comment"
    /\ hist["u1"][j].msg.comment = n
    /\ Len(thread) = ThreadMax
    /\ Cardinality({k \in 1..Len(thread) : thread[k].id = n.id}) = 1

\* thread holds the comment n, field by field
Holds(thread, n) == \E k \in 1..Len(thread) : thread[k] = n

\* C17 (as claimed): a comment that is in a thread stays in it, with its
\* author, text and timestamp, whatever comment is applied later.
C17_ThreadsAppendOnly ==
  [][\A c \in Clients : \A attribute \in KeySet(comments[c]) :
       \A i \in 1..Len(Get(comments[c], attribute)) :
         Holds(Thread(comments'[c], attribute), Get(comments[c], attribute)[i])]_vars

\* C18 (as claimed): after a comment whose id is new to the thread of its
\* attribute is applied, the thread holds it and every comment it held
\* before, in the order of their timestamps, and the threads of the other
\* attributes are as before, for every prior length of the thread.
C18_NewCommentAppended ==
  [][\A c \in Clients :
       (AcceptedComment(c)
          /\ Event(c).comment.id \notin IdsOf(Thread(comments[c], Event(c).comment.attribute)))
       => /\ Holds(Thread(comments'[c], Event(c).comment.attribute), Event(c).comment)
          /\ \A i \in 1..Len(Thread(comments[c], Event(c).comment.attribute)) :
               Holds(Thread(comments'[c], Event(c).comment.attribute),
                     Thread(comments[c], Event(c).comment.attribute)[i])
          /\ \A i \in 1..(Len(Thread(comments'[c], Event(c).comment.attribute)) - 1) :
               Thread(comments'[c], Event(c).comment.attribute)[i].timestamp
                 <= Thread(comments'[c], Event(c).comment.attribute)[i + 1].timestamp
          /\ \A other \in KeySet(comments[c]) \ {Event(c).comment.attribute} :
               Thread(comments'[c], other) = Thread(comments[c], other)]_vars

\* this step is client c returning from handleIncoming for an event of its own
Echoed(c) == echoes'[c] # echoes[c]

\* C19: handling an event that carries the client's own id changes none of
\* its peers, document, comments, project meta, activity log and
\* deduplication cache (nor the colour registry and the hasRemoteConfig
\* flag), and the client's own id is never a key of its peer registry.
C19_SelfEchoIgnored ==
  [][\A c \in Clients :
       /\ Echoed(c) =>
            /\ peers'[c] = peers[c]
            /\ config'[c] = config[c]
            /\ comments'[c] = comments[c]
            /\ projectMeta'[c] = projectMeta[c]
            /\ activity'[c] = activity[c]
            /\ recentMessages'[c] = recentMessages[c]
            /\ colorRegistry'[c] = colorRegistry[c]
            /\ hasRemoteConfig'[c] = hasRemoteConfig[c]
            /\ hist'[c] = hist[c]
       /\ c \notin DOMAIN peers'[c]
       /\ \A i \in 1..Len(recentMessages'[c]) : recentMessages'[c][i].key[2] # c]_vars

\* C19 witness: u1 was handed an event of its own after it had accepted a
\* cursor and a config event of u2; its registry holds u2 alone and its
\* cache the two events of u2.
C19_Witness ==
  /\ echoes["u1"] = 1
  /\ DOMAIN peers["u1"] = {"u2"}
  /\ Len(recentMessages["u1"]) = 2
  /\ config["u1"] = DocBlue
  /\ activity["u1"] # <<>>

\* this step is the relay handling a "collab-message" event
Sending == sent' # sent
\* the connections that joined room r and are still open
Members(r) == {t \in Connected : handshake[t] = <<r>>}

\* C20: when a connection that joined room R sends a collaboration event,
\* the relay emits it, payload unchanged, to exactly the open connections
\* that joined R other than the sender; no sender is emitted its own event,
\* and the relay's own state is as it was (it keeps no copy).
C20_RelayFanOut ==
  [][Sending =>
       LET s == Last(sent').from
           message == Last(sent').message
       IN /\ received'[s] = received[s]
          /\ IsString(handshake[s]) =>
               \A t \in Sockets :
                 received'[t] = IF t \in Members(handshake[s][1]) \ {s}
                                THEN Append(received[t], message)
                                ELSE received[t]
          /\ handshake' = handshake
          /\ rooms' = rooms]_vars

\* C20 witness: s1 of room p1 sent the project-meta event; s2 of p1 was
\* emitted it, s3 of room p2 and s1 itself were not.
C20_Witness ==
  /\ Len(sent) = 1
  /\ sent[1].from = "s1"
  /\ sent[1].message.kind = "project-meta"
  /\ Connected = Sockets
  /\ handshake["s1"] = <<"p1">>
  /\ handshake["s2"] = <<"p1">>
  /\ handshake["s3"] = <<"p2">>
  /\ received["s2"] = <<sent[1].message>>
  /\ received["s3"] = <<>>
  /\ received["s1"] = <<>>

\* connection t was emitted an event in this step
Emitted(t) == received'[t] # received[t]

\* C21 (as claimed): a connection that joined room R is emitted a relayed
\* event only if another connection that joined R sent it, and a connection
\* that gave no room is emitted no event sent by a connection of a room.
C21_RoomIsolation ==
  [][Sending =>
       LET s == Last(sent').from
       IN \A t \in Connected :
            Emitted(t) =>
              /\ t # s
              /\ IsString(handshake[t]) => handshake[s] = handshake[t]
              /\ ~IsString(handshake[t]) => ~IsString(handshake[s])]_vars

\* C22: a closed connection is in no room and is emitted no event; the step
\* that closes a connection emits nothing to any connection; and a client's
\* registry loses a peer only in that client's sweep.
C22_LeftOnlyBySweep ==
  [][/\ \A r \in ProjectIds : rooms'[r] \subseteq Connected'
     /\ \A t \in Sockets : t \notin Connected' => received'[t] = received[t]
     /\ (Connected' # Connected /\ Connected' \subseteq Connected) => received' = received
     /\ \A c \in Clients :
          ~(DOMAIN peers[c] \subseteq DOMAIN peers'[c]) => Swept(c)]_vars

\* C22 witness: s2 was emitted the first event of s1 and closed; the second
\* event of s1 went to s3 alone; u1, which had u2 in its registry, lost it
\* in the sweep 12 s after u2's event.
C22_Witness ==
  /\ Len(sent) = 2
  /\ sent[1].from = "s1"
  /\ sent[2].from = "s1"
  /\ Connected = {"s1", "s3"}
  /\ Len(received["s2"]) = 1
  /\ Len(received["s3"]) = 2
  /\ Len(hist["u1"]) = 1
  /\ hist["u1"][1].accepted
  /\ now - hist["u1"][1].at = 12000
  /\ sweepAt["u1"] = now + SweepEvery
  /\ peers["u1"] = NoPeers

\* the payloads the claim calls malformed: a cursor event without x or y, a
\* config event without config, a comment event without comment, an event
\* without username
Malformed(raw) ==
  \/ raw.kind = "cursor" /\ raw.missing \cap {"x", "y"} # {}
  \/ raw.kind = "config" /\ "config" \in raw.missing
  \/ raw.kind = "comment" /\ "comment" \in raw.missing
  \/ "username" \in raw.missing

\* C23 (as claimed): handling a malformed payload raises no error and leaves
\* peers, document, comments, project meta, activity log and deduplication
\* cache as they were.
C23_MalformedDropped ==
  [][\A c \in Clients :
       (Handled(c) /\ Malformed(Event(c))) =>
         /\ ~Last(hist'[c]).threw
         /\ peers'[c] = peers[c]
         /\ config'[c] = config[c]
         /\ comments'[c] = comments[c]
         /\ projectMeta'[c] = projectMeta[c]
         /\ activity'[c] = activity[c]
         /\ recentMessages'[c] = recentMessages[c]]_vars

\* this step is a step of persistence: a write is answered or lost, its
\* response resumes persistConfig, or a status timer fires
PersistStep ==
  /\ edits' = edits
  /\ puts' # puts \/ putReplies' # putReplies \/ clearTimers' # clearTimers

\* C24: no step of persistence, whatever the outcome of the write, changes a
\* client's document, the events in flight or what a client has applied;
\* and with writes pending, failed or lost, a local edit still sets its
\* selection and publishes its document, and an accepted remote config event
\* still replaces the document.
C24_PersistenceLeavesLocalState ==
  [][/\ PersistStep =>
          /\ config' = config
          /\ net' = net
          /\ hist' = hist
          /\ lastApplied' = lastApplied
          /\ hasRemoteConfig' = hasRemoteConfig
          /\ activity' = activity
     /\ Edited =>
          \E c \in Clients : \E ch \in EditChoices(config[c]) :
            /\ Get(config'[c].selections, ch[1]) = ch[2]
            /\ \A l \in Links : l[2] = c =>
                 /\ Len(net'[l]) = Len(net[l]) + 1
                 /\ Last(net'[l]).msg.config = config'[c]
     /\ \A c \in Clients :
          (Accepted(c) /\ Event(c).kind = "config") => config'[c].selections = Event(c).config.selections]_vars

\* C24 witness: both writes of u1 failed or were lost (nothing is stored,
\* the status line shows the failure); u1 holds the document of its second
\* edit, made after it had accepted a remote config event.
C24_Witness ==
  /\ edits = 2
  /\ store = NoConfig
  /\ puts = {}
  /\ putReplies = {}
  /\ saveStatus["u1"] = "Save failed"
  /\ Len(hist["u1"]) = 1
  /\ hist["u1"][1].accepted
  /\ config["u1"] = lastApplied["u1"]
  /\ config["u1"] # hist["u1"][1].msg.config
  /\ config["u1"] # createConfigFromVariant(defaultBaseModel)

\* C25 (as claimed): a status line that shows the failure of a write is
\* eventually empty again, with no further edit needed.
C25_FailureClears ==
  \A c \in Clients : (saveStatus[c] = "Save failed") ~> (saveStatus[c] = Null)

\* this step resumes persistConfig of client c with the response r of the
\* store
Answered(c, r) == r \in putReplies /\ r \notin putReplies' /\ r.from = c

\* C30 (as claimed): a write answered with the store's "unavailable" failure
\* (503 without a cache, 400 when the cache cannot be reached) changes no
\* stored state and leaves the status line of the editing client showing the
\* failure, not a successful save.
C30_UnavailableSurfaced ==
  [][/\ \A p \in puts : \A r \in putReplies' \ putReplies :
          (r.n = p.n /\ r.status # 200) => store' = store
     /\ \A c \in Clients : \A r \in putReplies :
          (Answered(c, r) /\ r.status # 200) =>
            /\ saveStatus'[c] = "Save failed"
            /\ saveStatus'[c] # "Saved"]_vars

\* the mouse moves of client c that published a cursor event
Published(c) == SelectSeq(moves[c], LAMBDA m : m.published)

\* C26: any two consecutive cursor events a client publishes are more than
\* 30 ms apart; a suppressed mouse move publishes nothing (every link from
\* the client carries one event per publishing move) and leaves the throttle
\* timestamp at the time of the latest publishing move.
C26_CursorThrottle ==
  \A c \in Clients :
    /\ \A i \in 2..Len(Published(c)) : Published(c)[i].at - Published(c)[i - 1].at > 30
    /\ \A l \in Links : l[2] = c => Len(net[l]) = Len(Published(c))
    /\ Published(c) # <<>> => lastCursorSent[c] = Last(Published(c)).at

\* C26 witness: u1 published at 0 ms and, 31 ms later, at 31 ms; its move
\* at 61 ms, 30 ms later, was suppressed: two events are on each link and
\* the throttle timestamp is still 31.
C26_Witness ==
  /\ Len(moves["u1"]) = 3
  /\ moves["u1"][1] = [at |-> 0, published |-> TRUE]
  /\ moves["u1"][2] = [at |-> 31, published |-> TRUE]
  /\ moves["u1"][3] = [at |-> 61, published |-> FALSE]
  /\ lastCursorSent["u1"] = 31
  /\ Len(net[<<"io", "u1", "u2">>]) = 2
  /\ Len(net[<<"bc", "u1", "u2">>]) = 2

\* C27: the fingerprint cache holds at most 32 entries, newest first; an
\* accepted event is entered at the front, and when the cache already holds
\* 32 the entry that leaves is the last one, the one entered longest ago,
\* and no other.
C27_CacheBounded ==
  [][\A c \in Clients :
       /\ Len(recentMessages'[c]) <= 32
       /\ \A i \in 2..Len(recentMessages'[c]) :
            recentMessages'[c][i].seen <= recentMessages'[c][i - 1].seen
       /\ Accepted(c) =>
            /\ Len(recentMessages'[c]) = IF Len(recentMessages[c]) < 32
                                         THEN Len(recentMessages[c]) + 1 ELSE 32
            /\ recentMessages'[c][1].key = messageKey(Event(c))
            /\ \A i \in 2..Len(recentMessages'[c]) :
                 recentMessages'[c][i] = recentMessages[c][i - 1]]_vars

\* C27 witness: u1 has accepted 33 events of different fingerprints; its
\* cache holds the 32 newest and the first event's entry is gone.
C27_Witness ==
  /\ Len(hist["u1"]) = 33
  /\ \A i \in 1..33 : hist["u1"][i].accepted
  /\ Len(recentMessages["u1"]) = 32
  /\ recentMessages["u1"][32].key = KeyAt("u1", 2)
  /\ recentMessages["u1"][1].key = KeyAt("u1", 33)
  /\ \A i \in 1..32 : recentMessages["u1"][i].key # KeyAt("u1", 1)

\* this step delivers the head of the BroadcastChannel link l to its receiver
ChannelDelivery(l) ==
  /\ l[1] = "bc"
  /\ net[l] # <<>>
  /\ net'[l] = Tail(net[l])
  /\ \A k \in Links \ {l} : net'[k] = net[k]

\* C28: whether or not the socket of the editing client is connected, a
\* local edit puts its config event on the BroadcastChannel to every other
\* tab; an event delivered on the BroadcastChannel is handled by its
\* receiver and, unless the filter holds its fingerprint, accepted and
\* applied; and no handled event ends in an exception.
C28_DegradesToChannel ==
  [][/\ Edited =>
          \E c \in Clients : \A l \in Links :
            (l[1] = "bc" /\ l[2] = c) =>
              /\ Len(net'[l]) = Len(net[l]) + 1
              /\ Last(net'[l]).msg = ConfigMessage(c, config'[c])
     /\ \A l \in Links :
          ChannelDelivery(l) =>
            /\ Handled(l[3])
            /\ Event(l[3]) = Head(net[l]).msg
            /\ ~already(recentMessages[l[3]], messageKey(Head(net[l]).msg), now) =>
                 /\ Accepted(l[3])
                 /\ config'[l[3]] = Head(net[l]).msg.config
     /\ \A c \in Clients : Handled(c) => ~Last(hist'[c]).threw]_vars

\* C28 witness: the socket of u1 was not connected during either of its two
\* edits (both events wait in its send buffer, none is on the socket link);
\* u2 accepted both events from the BroadcastChannel and holds u1's document.
C28_Witness ==
  /\ edits = 2
  /\ ~socketOpen["u1"]
  /\ Len(sendBuffer["u1"]) = 2
  /\ net[<<"io", "u1", "u2">>] = <<>>
  /\ net[<<"bc", "u1", "u2">>] = <<>>
  /\ Len(hist["u2"]) = 2
  /\ \A i \in 1..2 : hist["u2"][i].accepted
  /\ config["u2"] = config["u1"]
  /\ config["u1"] # createConfigFromVariant(defaultBaseModel)

\* the PUT request p was stored: it left the pending requests with a 200
Stored(p) == p \in puts /\ p \notin puts' /\ Reply(p, 200) \in putReplies'

\* the GET of client c was answered with a document
Got(c) == fetchPc[c] = "cfgSent" /\ fetchPc'[c] = "cfgReply" /\ fetchResp'[c].ok

\* the entry of the catalogue that document d names, the first entry when
\* it names none
CatalogueEntry(d) ==
  IF \E i \in 1..Len(BASE_MODELS) : BASE_MODELS[i].name = d.model
  THEN BASE_MODELS[CHOOSE i \in 1..Len(BASE_MODELS) : BASE_MODELS[i].name = d.model]
  ELSE BASE_MODELS[1]

\* document d with the model, brand and basePrice of its catalogue entry
Kept(d) ==
  [model |-> CatalogueEntry(d).name, brand |-> CatalogueEntry(d).brand,
   basePrice |-> CatalogueEntry(d).basePrice, selections |-> d.selections]

\* C29 as stated: for every document d a GET after PUT(d) returns d, with
\* the same model, brand, basePrice and selections.
C29_PutThenGetReturnsDocument ==
  [][\A p \in puts : Stored(p) => getConfig(store') = p.doc]_vars

\* C29 (amended): a GET with nothing persisted returns the default document
\* of the catalogue's first model and otherwise the stored document; after
\* PUT(d) the stored document, which a GET returns, has d's selections and
\* the model, brand and basePrice of the catalogue entry d.model names (the
\* first entry when it names none), so it is d when d carries its entry's
\* model, brand and basePrice; repeating PUT(d) leaves the store unchanged.
C29_StoreContract ==
  [][/\ \A p \in puts : Stored(p) =>
          /\ store' = Kept(p.doc)
          /\ getConfig(store') = Kept(p.doc)
          /\ (Kept(p.doc) = p.doc <=> getConfig(store') = p.doc)
          /\ (store = Kept(p.doc) => store' = store)
     /\ \A c \in Clients : Got(c) =>
          fetchResp'[c].config = IF store = NoConfig THEN DocRed ELSE store]_vars

\* two PUTs were stored, the last one of the document of an unknown model,
\* and a GET returned the document stored for it
C29_Witness ==
  /\ Cardinality(putReplies) = 2
  /\ store = [model |-> "Aster", brand |-> "Nova", basePrice |-> 100,
              selections |-> <<<<"color", "blue">>>>]
  /\ \E c \in Clients : fetchResp[c].ok /\ fetchResp[c].config = store

\* C31: a sweep removes a peer if and only if the peer was last seen more
\* than 12 s before the sweep; a peer last seen exactly 12 s before it is
\* kept.
C31_SweepBoundary ==
  [][\A c \in Clients : Swept(c) =>
       \A p \in DOMAIN peers[c] :
         p \notin DOMAIN peers'[c] <=> now - peers[c][p].lastSeen > 12000]_vars

\* C32: a peer in a client's registry had an event accepted by that client
\* at most 16 s ago (12 s to become stale and one sweep period of 4 s), and
\* a registry loses a peer only in a sweep.
C32_BoundedEviction ==
  [][\A c \in Clients :
       /\ \A p \in DOMAIN peers'[c] :
            \E i \in 1..Len(hist'[c]) :
              /\ hist'[c][i].accepted
              /\ hist'[c][i].msg.userId = p
              /\ now' - hist'[c][i].at <= 16000
       /\ ~(DOMAIN peers[c] \subseteq DOMAIN peers'[c]) => Swept(c)]_vars

\* C32 witness: u2's only event was accepted by u1 at 1 s; the sweep at 12 s
\* kept u2 (11 s old) and the sweep at 16 s has just removed it.
C32_Witness ==
  /\ now = 16000
  /\ sweepAt["u1"] = 20000
  /\ Len(hist["u1"]) = 1
  /\ hist["u1"][1].accepted
  /\ hist["u1"][1].at = 1000
  /\ peers["u1"] = NoPeers

\* the kinds of event the workspace knows
KnownKinds == {"cursor", "focus", "config", "project-meta", "comment"}

\* C33 (as claimed): handling an event of an unknown kind changes no state
\* of the client: peers, document, comments, project meta, activity log and
\* the deduplication cache stay as they were.
C33_UnknownKindRejected ==
  [][\A c \in Clients :
       (Handled(c) /\ Event(c).kind \notin KnownKinds) =>
         (Unapplied(c) /\ recentMessages'[c] = recentMessages[c])]_vars

\* the i-th event client c handled was dropped as a duplicate
Duplicate(c, i) ==
  /\ ~hist[c][i].accepted /\ ~hist[c][i].threw
  /\ isCollabMessage(hist[c][i].msg)

\* C34: the step that drops a duplicate leaves the fingerprint cache as it
\* was; and an event handled 1.5 s or more after the last accepted event of
\* its fingerprint is accepted although duplicates of it were dropped in
\* between.
C34_DuplicateLeavesCache ==
  [][\A c \in Clients : Handled(c) =>
       /\ (~Accepted(c) /\ ~Last(hist'[c]).threw /\ isCollabMessage(Event(c)))
            => recentMessages'[c] = recentMessages[c]
       /\ \A i \in 1..Len(hist[c]) :
            (/\ KeyAt(c, i) = messageKey(Event(c))
             /\ hist[c][i].accepted
             /\ now - hist[c][i].at >= DedupWindow
             /\ \A j \in (i + 1)..Len(hist[c]) :
                  KeyAt(c, j) = KeyAt(c, i) /\ Duplicate(c, j))
            => Accepted(c)]_vars

\* C34 witness: of three events of one fingerprint the first was accepted,
\* the second dropped 1 s later (0.5 s before the third) and the third
\* accepted 1.5 s after the first; the cache holds the first and the third.
C34_Witness ==
  /\ Len(hist["u1"]) = 3
  /\ KeyAt("u1", 1) = KeyAt("u1", 2) /\ KeyAt("u1", 2) = KeyAt("u1", 3)
  /\ hist["u1"][1].accepted /\ Duplicate("u1", 2) /\ hist["u1"][3].accepted
  /\ hist["u1"][2].at - hist["u1"][1].at = 1000
  /\ hist["u1"][3].at - hist["u1"][1].at = DedupWindow
  /\ Len(recentMessages["u1"]) = 2
  /\ recentMessages["u1"][2].seen = hist["u1"][1].at

\* the events of client c that are in flight on link l, if l is c's
Outgoing(c, l) == IF l[2] = c THEN Len(net[l]) ELSE 0

\* C35: once the workspace of a client is left, no step changes the client's
\* peers, document, comments, project meta, activity log or deduplication
\* cache or has it handle an event, and no step publishes an event of the
\* client on either channel or flushes or fills its socket's send buffer.
C35_Teardown ==
  [][\A c \in Clients : ~mounted[c] =>
       /\ Unapplied(c)
       /\ recentMessages'[c] = recentMessages[c]
       /\ hist'[c] = hist[c]
       /\ \A l \in Links : l[2] = c =>
            (net'[l] = net[l] \/ (net[l] # <<>> /\ net'[l] = Tail(net[l])))
       /\ sendBuffer'[c] = sendBuffer[c]]_vars

\* C35 witness: the workspace of u1 was left; afterwards the listing of its
\* fetchProjects effect arrived with the project (nothing of u1 went out: u2
\* handled no event) and the config event of u2's edit reached u1 on both
\* channels (u1 handled nothing and keeps the default document).
C35_Witness ==
  /\ ~mounted["u1"]
  /\ fetchPc["u1"] = "done"
  /\ edits = 1
  /\ \A l \in Links : net[l] = <<>>
  /\ hist["u1"] = <<>> /\ hist["u2"] = <<>>
  /\ config["u2"] # createConfigFromVariant(defaultBaseModel)
  /\ config["u1"] = createConfigFromVariant(defaultBaseModel)
  /\ projectMeta["u1"].title = fallbackTitle

\* C36 (as claimed): when u1 alone has edited and u2 has handled every
\* config event of u1, in the order sent and over one channel, u2 holds
\* u1's document, whatever the timing of the edits.
C36_SingleWriterConverges ==
  (edits > 0 /\ Len(hist["u2"]) = edits /\ net[<<"bc", "u1", "u2">>] = <<>>)
    => config["u2"] = config["u1"]

\* the config events of participant u that client c accepted
AppliedFrom(c, u) ==
  {i \in 1..Len(hist[c]) :
     hist[c][i].accepted /\ hist[c][i].msg.kind = "config" /\ hist[c][i].msg.userId = u}

\* C37 (as claimed): a client applies each config event a participant
\* published at most once, although it gets the event on both channels: it
\* has accepted no more config events of a participant than the participant
\* made edits, whatever the delay between the two copies.
C37_AtMostOnce ==
  \A c \in Clients : \A u \in Clients \ {c} :
    Cardinality(AppliedFrom(c, u)) <= Cardinality({p \in puts : p.from = u})

\* this step is client c dropping the event it handles as a duplicate
Dropped(c) ==
  /\ Handled(c) /\ ~Accepted(c) /\ ~Last(hist'[c]).threw
  /\ isCollabMessage(Event(c))

\* events a and b have the same kind, sender and kind-specific payload
SamePayload(a, b) ==
  /\ a.kind = b.kind /\ a.userId = b.userId
  /\ a.kind = "cursor" => (a.x = b.x /\ a.y = b.y)
  /\ a.kind = "focus" => a.field = b.field
  /\ a.kind = "config" => a.config = b.config
  /\ a.kind = "comment" => a.comment = b.comment
  /\ a.kind = "project-meta" => a.project = b.project

\* events a and b have the same kind and sender and agree in what the
\* filter looks at: the rounded position, the field, the selections, the
\* comment id, the keys of the project meta
SameFingerprint(a, b) ==
  /\ a.kind = b.kind /\ a.userId = b.userId
  /\ a.kind = "cursor" => ((a.x + 1) \div 2 = (b.x + 1) \div 2 /\ (a.y + 1) \div 2 = (b.y + 1) \div 2)
  /\ a.kind = "focus" => a.field = b.field
  /\ a.kind = "config" => a.config.selections = b.config.selections
  /\ a.kind = "comment" => a.comment.id = b.comment.id
  /\ a.kind = "project-meta" => Keys(a.project) = Keys(b.project)

\* C38 (as claimed): an event is dropped only if an event of the same kind,
\* sender and payload was accepted less than 1.5 s before; an event whose
\* payload differs is accepted.
C38_DropsOnlyTrueDuplicates ==
  [][\A c \in Clients : Dropped(c) =>
       \E i \in 1..Len(hist[c]) :
         /\ hist[c][i].accepted
         /\ now - hist[c][i].at < 1500
         /\ SamePayload(hist[c][i].msg, Event(c))]_vars

\* C38 (amended): an event is dropped only if an event of the same kind and
\* sender that agrees with it in the rounded position, the field, the
\* selections, the comment id or the keys of the project meta was accepted
\* less than 1.5 s before; an event that agrees in these with one accepted
\* less than 1.5 s before is dropped even though its payload differs (other
\* title, other model, other unrounded position).
C38_DropsOnlySameFingerprint ==
  [][\A c \in Clients :
       /\ Dropped(c) =>
            \E i \in 1..Len(hist[c]) :
              /\ hist[c][i].accepted
              /\ now - hist[c][i].at < 1500
              /\ SameFingerprint(hist[c][i].msg, Event(c))
       /\ (Handled(c) /\ \E i \in 1..Len(hist[c]) :
              /\ hist[c][i].accepted
              /\ now - hist[c][i].at < 1500
              /\ SameFingerprint(hist[c][i].msg, Event(c))
              /\ ~SamePayload(hist[c][i].msg, Event(c))
              /\ AcceptedAfter(c, i) < CacheMax)
            => Dropped(c)]_vars

\* C38 witness: a project-meta event with the title Mine was dropped 0.5 s
\* after the event with the title Demo had been accepted; the title is
\* still Demo.
C38_Witness ==
  /\ Len(hist["u1"]) = 2
  /\ hist["u1"][1].accepted /\ Duplicate("u1", 2)
  /\ hist["u1"][1].msg.kind = "project-meta"
  /\ hist["u1"][2].msg.project = <<<<"title", "Mine">>>>
  /\ hist["u1"][2].at - hist["u1"][1].at = 500
  /\ projectMeta["u1"].title = "Demo"

\* C39: the activity feed of every client holds at most 12 entries, from the
\* newest to the oldest, and no two neighbours of one message and one user
\* that are less than 1200 ms apart; and whenever the feed changes, the new
\* entry of this moment is put in front of the entries held before, of which
\* a full feed of 12 gives up its oldest and nothing else.
ActivityWellFormed(items) ==
  /\ Len(items) <= 12
  /\ \A i \in 1..Len(items) : \A j \in i..Len(items) : items[i].timestamp >= items[j].timestamp
  /\ \A i \in 1..(Len(items) - 1) :
       (items[i].message = items[i + 1].message /\ items[i].user = items[i + 1].user)
         => items[i].timestamp - items[i + 1].timestamp >= 1200
ActivityPushed(before, after) ==
  /\ Len(after) > 0
  /\ after[1].timestamp = now
  /\ Tail(after) = (IF Len(before) >= 12 THEN SubSeq(before, 1, 11) ELSE before)
C39_ActivityBounded ==
  /\ [](\A c \in Clients : ActivityWellFormed(activity[c]))
  /\ [][\A c \in Clients : activity'[c] # activity[c] => ActivityPushed(activity[c], activity'[c])]_vars
\* a full feed after 14 edits and a note of u1, that is after 13 pushes at
\* least, with a repeated selection and after the window has passed
C39_Witness ==
  /\ Len(activity["u1"]) = 12
  /\ edits >= 14
  /\ notes["u1"] >= 1
  /\ ActivityRepeats >= 1
  /\ now >= 1200
  /\ \E i \in 1..11 : activity["u1"][i].timestamp = 1200 /\ activity["u1"][i + 1].timestamp = 0

\* C40: once every POST of the comment threads has completed and every
\* comment event has been handled, the threads in the cache hold every
\* comment the participants added.
C40_NoCommentLost ==
  (posts = {} /\ \A l \in Links : net[l] = <<>>)
    => \A c \in Clients : \A k \in 1..notes[c] :
         OwnIds[c][k] \in IdsOf(Thread(commentStore, "color"))

====
